---- MODULE Spec2Model ----
(***************************************************************************)
(* Reroute NJ coverage scraper (tools/scrape-coverage.py): the article     *)
(* discovery pipeline (run_discover), the drift verifier (run_verify) and  *)
(* the pure functions they are built from, over Python strings.            *)
(*                                                                         *)
(* Strings are TLA+ strings; Len, \o and SubSeq act on them as Python's    *)
(* len, + and slicing do.  None is the string NoneVal.                     *)
(***************************************************************************)
EXTENDS Integers, Sequences, FiniteSets, TLC

VARIABLES coverage, registry, commits, now, world, run, probe, procs

vars == <<coverage, registry, commits, now, world, run, probe, procs>>

(***************************************************************************)
(* Python string primitives                                                *)
(***************************************************************************)
NoneVal == "<None>"

\* Python truthiness of an optional string: None and "" are falsy.
Truthy(s) == s /= NoneVal /\ s /= ""

Ch(s, i) == SubSeq(s, i, i)

\* s[i:] with a 1-based start
From(s, i) == SubSeq(s, i, Len(s))

\* Printable ASCII in code-point order: 32 (space) to 95, and 97 to 126.
\* The grave accent (96) cannot be written in a string of this notation.
AsciiLo == " !\"#$%&'()*+,-./0123456789:;<=>?@ABCDEFGHIJKLMNOPQRSTUVWXYZ[\\]^_"
AsciiHi == "abcdefghijklmnopqrstuvwxyz{|}~"

UpperS == "ABCDEFGHIJKLMNOPQRSTUVWXYZ"
LowerS == "abcdefghijklmnopqrstuvwxyz"
DigitS == "0123456789"

\* 1-based position of the one-character string c in alphabet, 0 when absent
Pos(alphabet, c) ==
    IF \E i \in 1..Len(alphabet) : Ch(alphabet, i) = c
    THEN CHOOSE i \in 1..Len(alphabet) : Ch(alphabet, i) = c
    ELSE 0

IsDigit(c) == Pos(DigitS, c) > 0
IsLowerAlnum(c) == Pos(LowerS, c) > 0 \/ IsDigit(c)
IsSpace(c) == c \in {" ", "\n", "\t", "\r"}

\* ord(c) for printable ASCII; line breaks and tabs sort below it
Ord(c) ==
    IF Pos(AsciiLo, c) > 0 THEN Pos(AsciiLo, c) + 31
    ELSE IF Pos(AsciiHi, c) > 0 THEN Pos(AsciiHi, c) + 96
    ELSE 10

LowerCh(c) == IF Pos(UpperS, c) > 0 THEN Ch(LowerS, Pos(UpperS, c)) ELSE c

\* F(lo) \o ... \o F(hi), by halving
RECURSIVE ConcatMap(_, _, _)
ConcatMap(F(_), lo, hi) ==
    IF lo > hi THEN ""
    ELSE IF lo = hi THEN F(lo)
    ELSE ConcatMap(F, lo, (lo + hi) \div 2) \o ConcatMap(F, ((lo + hi) \div 2) + 1, hi)

\* str.lower()
Lower(s) == LET F(i) == LowerCh(Ch(s, i)) IN ConcatMap(F, 1, Len(s))

\* s.startswith(p)
StartsWith(s, p) == Len(s) >= Len(p) /\ SubSeq(s, 1, Len(p)) = p

\* sub in s
Contains(s, sub) ==
    \E i \in 1..(Len(s) - Len(sub) + 1) : SubSeq(s, i, i + Len(sub) - 1) = sub

\* s.find(sub) as a 1-based index, 0 when absent
Find(s, sub) ==
    IF Contains(s, sub)
    THEN CHOOSE i \in 1..(Len(s) - Len(sub) + 1) :
            /\ SubSeq(s, i, i + Len(sub) - 1) = sub
            /\ \A j \in 1..(i - 1) : SubSeq(s, j, j + Len(sub) - 1) /= sub
    ELSE 0

\* s.replace(old, new), old non-empty: leftmost non-overlapping occurrences
RECURSIVE Replace(_, _, _)
Replace(s, old, new) ==
    LET i == Find(s, old)
    IN  IF i = 0 THEN s
        ELSE SubSeq(s, 1, i - 1) \o new \o Replace(From(s, i + Len(old)), old, new)

\* the length of the longest prefix of s whose characters satisfy P
SpanLen(s, P(_)) ==
    CHOOSE n \in 0..Len(s) :
        /\ \A i \in 1..n : P(Ch(s, i))
        /\ (n = Len(s) \/ ~P(Ch(s, n + 1)))

NotSpace(c) == ~IsSpace(c)

\* the number of leading characters of s in chars
SpanOf(s, chars) ==
    CHOOSE n \in 0..Len(s) :
        /\ \A i \in 1..n : Ch(s, i) \in chars
        /\ (n = Len(s) \/ Ch(s, n + 1) \notin chars)

\* the number of trailing characters of s in chars
TailSpanOf(s, chars) ==
    CHOOSE n \in 0..Len(s) :
        /\ \A i \in (Len(s) - n + 1)..Len(s) : Ch(s, i) \in chars
        /\ (n = Len(s) \/ Ch(s, Len(s) - n) \notin chars)

\* s.rstrip(c), s.lstrip(c), s.strip(c) for a one-character c
RStripCh(s, c) == SubSeq(s, 1, Len(s) - TailSpanOf(s, {c}))
LStripCh(s, c) == From(s, SpanOf(s, {c}) + 1)
StripCh(s, c) == RStripCh(LStripCh(s, c), c)

WHITESPACE == {" ", "\n", "\t", "\r"}

\* s.strip(): whitespace off both ends
Strip(s) ==
    LET t == From(s, SpanOf(s, WHITESPACE) + 1)
    IN  SubSeq(t, 1, Len(t) - TailSpanOf(t, WHITESPACE))

\* a < b on strings: Python compares code point by code point
StrLess(a, b) ==
    LET m == IF Len(a) < Len(b) THEN Len(a) ELSE Len(b)
        Differ(i) == Ch(a, i) /= Ch(b, i)
    IN  IF \E i \in 1..m : Differ(i)
        THEN LET i == CHOOSE k \in 1..m : Differ(k) /\ \A j \in 1..(k - 1) : ~Differ(j)
             IN  Ord(Ch(a, i)) < Ord(Ch(b, i))
        ELSE Len(a) < Len(b)

\* the k-th smallest element of a finite set of integers
Nth(S, k) == CHOOSE i \in S : Cardinality({j \in S : j < i}) = k - 1

\* the pieces of s between the positions of seps (a set of positions of s)
Pieces(s, seps) ==
    LET n == Cardinality(seps)
        Start(k) == IF k = 1 THEN 1 ELSE Nth(seps, k - 1) + 1
        End(k) == IF k = n + 1 THEN Len(s) ELSE Nth(seps, k) - 1
    IN  [k \in 1..(n + 1) |-> SubSeq(s, Start(k), End(k))]

\* s.split(sep) for a one-character sep
Split(s, sep) == Pieces(s, {i \in 1..Len(s) : Ch(s, i) = sep})

\* sep.join(parts)
RECURSIVE Join(_, _)
Join(parts, sep) ==
    IF parts = <<>> THEN ""
    ELSE IF Len(parts) = 1 THEN parts[1]
    ELSE parts[1] \o sep \o Join(Tail(parts), sep)

Range(seq) == {seq[i] : i \in 1..Len(seq)}

\* s[:n]
Prefix(s, n) == SubSeq(s, 1, IF n < Len(s) THEN n ELSE Len(s))

\* s[-n:]
Suffix(s, n) == IF Len(s) <= n THEN s ELSE SubSeq(s, Len(s) - n + 1, Len(s))

\* smallest 1-based position in s of a character of chars, 0 when none occurs
FindAny(s, chars) ==
    IF \E i \in 1..Len(s) : Ch(s, i) \in chars
    THEN CHOOSE i \in 1..Len(s) :
            Ch(s, i) \in chars /\ \A j \in 1..(i - 1) : Ch(s, j) \notin chars
    ELSE 0

AllDigits(s) == \A i \in 1..Len(s) : IsDigit(Ch(s, i))

\* int(s) for a string of decimal digits
RECURSIVE ToInt(_)
ToInt(s) ==
    IF s = "" THEN 0
    ELSE 10 * ToInt(SubSeq(s, 1, Len(s) - 1)) + (Pos(DigitS, Ch(s, Len(s))) - 1)

(***************************************************************************)
(* URLs: urllib.parse.urlparse, normalize_url and the exclusion rules      *)
(***************************************************************************)
IsSchemeChar(c) ==
    Pos(LowerS, c) > 0 \/ Pos(UpperS, c) > 0 \/ IsDigit(c) \/ c \in {"+", "-", "."}

\* s up to the first character of it that is in chars, all of s when none is
BeforeAny(s, chars) ==
    IF FindAny(s, chars) = 0 THEN s ELSE SubSeq(s, 1, FindAny(s, chars) - 1)

\* the position of the colon that ends the scheme of url, 0 when url has none:
\* a scheme is a letter followed by letters, digits, + - and .
SchemeEnd(url) ==
    IF /\ Find(url, ":") > 1
       /\ Pos(LowerS, LowerCh(Ch(url, 1))) > 0
       /\ \A i \in 1..(Find(url, ":") - 1) : IsSchemeChar(Ch(url, i))
    THEN Find(url, ":") ELSE 0

\* urllib.parse's uses_params
USES_PARAMS ==
    {"", "ftp", "hdl", "prospero", "http", "imap", "https", "shttp", "rtsp", "rtspu",
     "sip", "sips", "mms", "sftp", "tel"}

\* _splitparams: the path without the ;params of its last segment
SplitParams(scheme, path) ==
    LET semis == {i \in 1..Len(path) :
                    Ch(path, i) = ";" /\ \A j \in i..Len(path) : Ch(path, j) /= "/"}
    IN  IF scheme \in USES_PARAMS /\ semis /= {}
        THEN SubSeq(path, 1, (CHOOSE i \in semis : \A j \in semis : i <= j) - 1)
        ELSE path

\* urlparse(url): scheme (lower-cased), netloc and path; query, fragment and
\* the ;params of the last path segment are split off
urlparse(url) ==
    LET Parts(scheme, rest) ==
            [scheme |-> scheme,
             netloc |-> IF StartsWith(rest, "//")
                        THEN BeforeAny(From(rest, 3), {"/", "?", "#"}) ELSE "",
             path |-> SplitParams(scheme,
                        BeforeAny(IF StartsWith(rest, "//")
                                  THEN From(rest, 3 + Len(BeforeAny(From(rest, 3),
                                                                    {"/", "?", "#"})))
                                  ELSE rest,
                                  {"#", "?"}))]
    IN  Parts(Lower(SubSeq(url, 1, SchemeEnd(url) - 1)), From(url, SchemeEnd(url) + 1))

\* normalize_url: the dedup key
normalize_url(url) ==
    LET Key(parsed) ==
            Lower(parsed.scheme \o "://" \o parsed.netloc \o RStripCh(parsed.path, "/"))
    IN  Key(urlparse(url))

BLOCKED_SITES == {"nytimes.com", "wsj.com"}

EXCLUDED_DOMAINS ==
    {"wikipedia.org", "youtube.com", "youtu.be", "reddit.com", "facebook.com",
     "instagram.com", "x.com", "twitter.com", "trainorders.com", "railfan.com",
     "linkedin.com", "tiktok.com"}

is_blocked_site(url) ==
    \E blocked \in BLOCKED_SITES : Contains(Lower(urlparse(url).netloc), blocked)

\* re.match(r"^https?://[^/]+/?$", url): the bare homepage
IsBareHomepage(url) ==
    LET rest == IF StartsWith(url, "https://") THEN From(url, 9)
                ELSE IF StartsWith(url, "http://") THEN From(url, 8)
                ELSE "/"
        host == IF rest /= "" /\ Ch(rest, Len(rest)) = "/"
                THEN SubSeq(rest, 1, Len(rest) - 1) ELSE rest
    IN  host /= "" /\ ~Contains(host, "/")

is_excluded_url(url) ==
    \/ \E excl \in EXCLUDED_DOMAINS : Contains(Lower(urlparse(url).netloc), excl)
    \/ IsBareHomepage(url)

(***************************************************************************)
(* Dates                                                                   *)
(***************************************************************************)
\* \d{4}-\d{2}-\d{2} at the start of s
DateShapeAt(s) ==
    /\ Len(s) >= 10
    /\ AllDigits(SubSeq(s, 1, 4)) /\ Ch(s, 5) = "-"
    /\ AllDigits(SubSeq(s, 6, 7)) /\ Ch(s, 8) = "-"
    /\ AllDigits(SubSeq(s, 9, 10))

\* re.match(r"^\d{4}-\d{2}-\d{2}$", s); $ also matches before a final line break
MatchesDateRe(s) == DateShapeAt(s) /\ (Len(s) = 10 \/ (Len(s) = 11 /\ Ch(s, 11) = "\n"))

IsLeap(y) == (y % 4 = 0 /\ y % 100 /= 0) \/ y % 400 = 0

DaysIn(y, m) ==
    IF m = 2 THEN (IF IsLeap(y) THEN 29 ELSE 28)
    ELSE IF m \in {4, 6, 9, 11} THEN 30 ELSE 31

\* whether datetime(y, m, d) exists
ValidYMD(y, m, d) == y \in 1..9999 /\ m \in 1..12 /\ d \in 1..DaysIn(y, m)

\* whether the string s of the shape YYYY-MM-DD names a day of the calendar
\* (datetime.date.fromisoformat accepts it)
IsRealDate(s) ==
    /\ Len(s) = 10 /\ DateShapeAt(s)
    /\ ValidYMD(ToInt(SubSeq(s, 1, 4)), ToInt(SubSeq(s, 6, 7)), ToInt(SubSeq(s, 9, 10)))

Pad(n, w) ==
    LET RECURSIVE Digits(_, _)
        Digits(k, width) ==
            IF width = 0 THEN ""
            ELSE Digits(k \div 10, width - 1) \o Ch(DigitS, (k % 10) + 1)
    IN  Digits(n, w)

\* dt.strftime("%Y-%m-%d")
FormatDate(y, m, d) == Pad(y, 4) \o "-" \o Pad(m, 2) \o "-" \o Pad(d, 2)

\* datetime.fromisoformat(val.replace("Z", "+00:00")).strftime("%Y-%m-%d"):
\* NoneVal for the ValueError.  A date alone, or a date, a T or a space and a
\* time of day (taken as well formed when it starts with two digits).
fromisoformat_date(val) ==
    LET Date(v) ==
            IF /\ Len(v) >= 10 /\ IsRealDate(SubSeq(v, 1, 10))
               /\ \/ Len(v) = 10
                  \/ /\ Len(v) >= 13
                     /\ Ch(v, 11) \in {"T", " "}
                     /\ AllDigits(SubSeq(v, 12, 13))
            THEN SubSeq(v, 1, 10) ELSE NoneVal
    IN  Date(Replace(val, "Z", "+00:00"))

\* extract_date_from_url: re.search(r"/(\d{4})/(\d{2})/(\d{2})/", url)
DatePathAt(url, i) ==
    /\ i + 11 <= Len(url)
    /\ Ch(url, i) = "/" /\ AllDigits(SubSeq(url, i + 1, i + 4))
    /\ Ch(url, i + 5) = "/" /\ AllDigits(SubSeq(url, i + 6, i + 7))
    /\ Ch(url, i + 8) = "/" /\ AllDigits(SubSeq(url, i + 9, i + 10))
    /\ Ch(url, i + 11) = "/"

extract_date_from_url(url) ==
    LET Ymd(i) == SubSeq(url, i + 1, i + 4) \o "-" \o SubSeq(url, i + 6, i + 7)
                    \o "-" \o SubSeq(url, i + 9, i + 10)
    IN  IF \E i \in 1..Len(url) : DatePathAt(url, i)
        THEN Ymd(CHOOSE k \in 1..Len(url) :
                    DatePathAt(url, k) /\ \A j \in 1..(k - 1) : ~DatePathAt(url, j))
        ELSE NoneVal

(***************************************************************************)
(* Scraped metadata: the attributes of the scrape result's metadata object *)
(* as a sequence of <<name, value>> pairs (its __dict__, in order) and its *)
(* status_code (0 when it has none).                                       *)
(***************************************************************************)
\* getattr(metadata, name, None)
GetAttr(metadata, name) ==
    IF \E i \in 1..Len(metadata.attrs) : metadata.attrs[i][1] = name
    THEN metadata.attrs[CHOOSE i \in 1..Len(metadata.attrs) : metadata.attrs[i][1] = name][2]
    ELSE NoneVal

\* the first element of seq for which F is not None, mapped by F; else None
FirstSome(seq, F(_)) ==
    IF \E i \in 1..Len(seq) : F(seq[i]) /= NoneVal
    THEN F(seq[CHOOSE i \in 1..Len(seq) :
                 F(seq[i]) /= NoneVal /\ \A j \in 1..(i - 1) : F(seq[j]) = NoneVal])
    ELSE NoneVal

DATE_ATTRS == <<"published_time", "dc_terms_created", "dc_date_created", "dc_date">>

\* the value of a date attribute, parsed; None when absent or not a date
DateOfAttr(metadata, attr) ==
    IF Truthy(GetAttr(metadata, attr))
    THEN fromisoformat_date(GetAttr(metadata, attr)) ELSE NoneVal

\* the value of an attribute whose name holds "publish" or "date", as a date
DateOfKey(kv) ==
    IF /\ Truthy(kv[2])
       /\ Contains(Lower(kv[1]), "publish") \/ Contains(Lower(kv[1]), "date")
    THEN (IF DateShapeAt(kv[2]) THEN SubSeq(kv[2], 1, 10) ELSE fromisoformat_date(kv[2]))
    ELSE NoneVal

\* the date attributes first, then every attribute of the metadata in order
extract_date_from_metadata(metadata) ==
    FirstSome([i \in 1..Len(DATE_ATTRS) |-> DateOfAttr(metadata, DATE_ATTRS[i])]
                \o [i \in 1..Len(metadata.attrs) |-> DateOfKey(metadata.attrs[i])],
              LAMBDA date : date)

extract_author_from_metadata(metadata) ==
    LET ByKey(kv) ==
            IF Contains(Lower(kv[1]), "author") /\ Truthy(kv[2]) /\ ~StartsWith(kv[2], "http")
            THEN kv[2] ELSE NoneVal
    IN  FirstSome(metadata.attrs, ByKey)

MONTHS ==
    <<"january", "february", "march", "april", "may", "june", "july", "august",
      "september", "october", "november", "december">>


\* the month that the word w, in lower case, names in full (%B) or by its
\* first three letters (%b); 0 when it names none
MonthNamed(w) ==
    IF \E m \in 1..12 : w = MONTHS[m] \/ w = SubSeq(MONTHS[m], 1, 3)
    THEN CHOOSE m \in 1..12 : w = MONTHS[m] \/ w = SubSeq(MONTHS[m], 1, 3)
    ELSE 0

\* datetime.strptime(date_str, "%B %d %Y") and "%b %d %Y" on a month word, a
\* day and a year: the date as YYYY-MM-DD, None when neither format parses
strptime_month_day_year(word, day, year) ==
    IF ValidYMD(ToInt(year), MonthNamed(Lower(word)), ToInt(day))
    THEN FormatDate(ToInt(year), MonthNamed(Lower(word)), ToInt(day))
    ELSE NoneVal

\* the positions reached from position i of s by skipping, one step after the
\* other, the longest run of at most step.max characters of step.chars
RECURSIVE Scan(_, _, _)
Scan(s, i, steps) ==
    IF steps = <<>> THEN <<>>
    ELSE LET Skip(n) == <<i + n>> \o Scan(s, i + n, Tail(steps))
             Run(n, max) == Skip(IF n < max THEN n ELSE max)
         IN  Run(SpanOf(From(s, i), Head(steps).chars), Head(steps).max)

\* the characters of \w and of \d
WORD_CHARS == {Ch(LowerS, k) : k \in 1..26} \cup {Ch(UpperS, k) : k \in 1..26}
                \cup {Ch(DigitS, k) : k \in 1..10} \cup {"_"}
DIGIT_CHARS == {Ch(DigitS, k) : k \in 1..10}

\* (?:posted|published|updated|date) [:\s]* (jan|...|dec)\w* \s+ \d{1,2} ,? \s+
\* after the keyword: the runs to skip, the digits counted afterwards
DATE_PATTERN ==
    <<[chars |-> WHITESPACE \cup {":"}, max |-> 1000], [chars |-> WORD_CHARS, max |-> 1000],
      [chars |-> WHITESPACE, max |-> 1000], [chars |-> DIGIT_CHARS, max |-> 1000],
      [chars |-> {","}, max |-> 1], [chars |-> WHITESPACE, max |-> 1000]>>

\* the match of (?:posted|published|updated|date)[:\s]*
\*   ((?:jan|...|dec)\w*\s+\d{1,2},?\s+\d{4}) begun at position i of line, low
\* being the line in lower case (the pattern is case-insensitive): whether
\* there is a match at i, and the date its group parses to.  p holds the ends
\* of the runs of DATE_PATTERN: the month word is p[1]..p[2]-1, the day
\* p[3]..p[4]-1, and the year starts at p[6].
MarkdownDateAt(line, low, i) ==
    LET NoMatch == [matched |-> FALSE, date |-> NoneVal]
        Match(p) ==
            IF /\ \E m \in 1..12 : StartsWith(From(low, p[1]), SubSeq(MONTHS[m], 1, 3))
               /\ p[3] > p[2] /\ p[4] - p[3] \in {1, 2} /\ p[6] > p[5]
               /\ p[6] + 3 <= Len(low) /\ AllDigits(SubSeq(low, p[6], p[6] + 3))
            THEN [matched |-> TRUE,
                  date |-> strptime_month_day_year(SubSeq(line, p[1], p[2] - 1),
                              SubSeq(line, p[3], p[4] - 1), SubSeq(line, p[6], p[6] + 3))]
            ELSE NoMatch
        KEYWORDS == {"posted", "published", "updated", "date"}
    IN  IF \E k \in KEYWORDS : StartsWith(From(low, i), k)
        THEN Match(Scan(low, i + Len(CHOOSE k \in KEYWORDS : StartsWith(From(low, i), k)),
                        DATE_PATTERN))
        ELSE NoMatch

\* re.search on one line and the parse of its group: the date of the leftmost
\* match, None when the line has no match or the match does not parse
MarkdownDateIn(line, low) ==
    LET Leftmost(hits) ==
            IF hits = {} THEN NoneVal
            ELSE MarkdownDateAt(line, low, CHOOSE i \in hits : \A j \in hits : i <= j).date
    IN  Leftmost({i \in 1..Len(line) : MarkdownDateAt(line, low, i).matched})

\* extract_date_from_markdown: the first of the first 30 lines whose leftmost
\* match parses
extract_date_from_markdown(markdown) ==
    IF ~Truthy(markdown) THEN NoneVal
    ELSE FirstSome(Prefix(Split(markdown, "\n"), 30),
                   LAMBDA line : MarkdownDateIn(line, Lower(line)))

(***************************************************************************)
(* Classification                                                          *)
(***************************************************************************)
VALID_CATEGORIES == {"official", "news", "analysis", "community", "opinion"}
VALID_DIRECTIONS == {"both", "nj-to-nyc", "nyc-to-nj"}
VALID_LINES ==
    {"all", "montclair-boonton", "morris-essex", "northeast-corridor",
     "north-jersey-coast", "raritan-valley"}

RELEVANCE_KEYWORDS == {"portal bridge", "portal north", "cutover", "portal north bridge"}

\* any(kw in text for kw in kws)
AnyIn(kws, text) == \E kw \in kws : Contains(text, kw)

is_relevant_content(markdown) ==
    IF ~Truthy(markdown) THEN FALSE ELSE AnyIn(RELEVANCE_KEYWORDS, Lower(markdown))

\* the lists of classify_category, in the order of its rules
OFFICIAL_DOMAINS == {"njtransit.com", "media.amtrak.com", "panynj.gov"}
OPINION_KEYWORDS == {"opinion", "editorial", "op-ed", "column", "commentary"}
ANALYSIS_KEYWORDS == {"analysis", "explainer", "guide", "what to know", "breakdown"}
COMMUNITY_DOMAINS == {"tapinto.net", "patch.com", "hobokengirl", "montclairgirl"}

classify_category_OpinionFirst(url, title, description) ==
    LET Category(url_lower, text) ==
            IF AnyIn(OPINION_KEYWORDS, text)
            THEN "opinion"
            ELSE IF AnyIn(OFFICIAL_DOMAINS, url_lower)
            THEN "official"
            ELSE IF AnyIn(ANALYSIS_KEYWORDS, text)
            THEN "analysis"
            ELSE IF AnyIn(COMMUNITY_DOMAINS, url_lower)
            THEN "community"
            ELSE "news"
    IN  Category(Lower(url), Lower(title \o " " \o description))

classify_category(url, title, description) ==
    LET Category(url_lower, text) ==
            IF AnyIn(OFFICIAL_DOMAINS, url_lower)
            THEN "official"
            ELSE IF AnyIn(OPINION_KEYWORDS, text)
            THEN "opinion"
            ELSE IF AnyIn(ANALYSIS_KEYWORDS, text)
            THEN "analysis"
            ELSE IF AnyIn(COMMUNITY_DOMAINS, url_lower)
            THEN "community"
            ELSE "news"
    IN  Category(Lower(url), Lower(title \o " " \o description))

\* line_keywords, in the order of the dict
LINE_KEYWORDS ==
    << <<"montclair-boonton", {"montclair", "boonton", "midtown direct"}>>,
       <<"morris-essex", {"morris", "essex", "morristown", "gladstone", "summit"}>>,
       <<"northeast-corridor", {"northeast corridor", "nec "}>>,
       <<"north-jersey-coast",
         {"north jersey coast", "njcl", "coast line", "bay head", "long branch"}>>,
       <<"raritan-valley", {"raritan valley", "raritan", "one-seat ride"}>> >>

classify_lines_AllFromThree(title, excerpt) ==
    LET Tags(hits) ==
            IF Len(hits) >= 3 \/ hits = <<>> THEN <<"all">>
            ELSE [i \in 1..Len(hits) |-> hits[i][1]]
        Of(text) == Tags(SelectSeq(LINE_KEYWORDS, LAMBDA entry : AnyIn(entry[2], text)))
    IN  Of(Lower(title \o " " \o excerpt))

classify_lines(title, excerpt) ==
    LET Tags(hits) ==
            IF Len(hits) >= 4 \/ hits = <<>> THEN <<"all">>
            ELSE [i \in 1..Len(hits) |-> hits[i][1]]
        Of(text) == Tags(SelectSeq(LINE_KEYWORDS, LAMBDA entry : AnyIn(entry[2], text)))
    IN  Of(Lower(title \o " " \o excerpt))

\* the two lists of classify_direction
NJ_TO_NYC_KEYWORDS ==
    {"nj-to-nyc", "into manhattan", "to penn station", "morning commute",
     "heading to new york", "into the city"}
NYC_TO_NJ_KEYWORDS ==
    {"nyc-to-nj", "reverse commut", "evening commute", "going home",
     "heading to new jersey", "heading home"}

classify_direction_FirstWins(title, excerpt) ==
    LET Direction(nj_to_nyc, nyc_to_nj) ==
            IF nj_to_nyc THEN "nj-to-nyc"
            ELSE IF nyc_to_nj THEN "nyc-to-nj"
            ELSE "both"
        Of(text) ==
            Direction(AnyIn(NJ_TO_NYC_KEYWORDS, text), AnyIn(NYC_TO_NJ_KEYWORDS, text))
    IN  Of(Lower(title \o " " \o excerpt))

classify_direction(title, excerpt) ==
    LET Direction(nj_to_nyc, nyc_to_nj) ==
            IF nj_to_nyc /\ nyc_to_nj THEN "both"
            ELSE IF nj_to_nyc THEN "nj-to-nyc"
            ELSE IF nyc_to_nj THEN "nyc-to-nj"
            ELSE "both"
        Of(text) ==
            Direction(AnyIn(NJ_TO_NYC_KEYWORDS, text), AnyIn(NYC_TO_NJ_KEYWORDS, text))
    IN  Of(Lower(title \o " " \o excerpt))

(***************************************************************************)
(* make_article_id, make_excerpt, source_name_from_url                     *)
(***************************************************************************)
\* re.sub(r"[^a-z0-9]+", "-", s): each run of other characters becomes one hyphen
Slugify(s) ==
    LET F(i) == IF IsLowerAlnum(Ch(s, i)) THEN Ch(s, i)
                ELSE IF i = 1 \/ IsLowerAlnum(Ch(s, i - 1)) THEN "-"
                ELSE ""
    IN  ConcatMap(F, 1, Len(s))

\* re.sub(r"[^a-z0-9\s]", "", s)
KeepAlnumSpace(s) ==
    LET F(i) == IF IsLowerAlnum(Ch(s, i)) \/ IsSpace(Ch(s, i)) THEN Ch(s, i) ELSE ""
    IN  ConcatMap(F, 1, Len(s))

\* s.split(): the maximal runs of non-whitespace
Words(s) ==
    LET IsStart(i) == ~IsSpace(Ch(s, i)) /\ (i = 1 \/ IsSpace(Ch(s, i - 1)))
        starts == {i \in 1..Len(s) : IsStart(i)}
        WordAt(i) == SubSeq(s, i, i + SpanLen(From(s, i), NotSpace) - 1)
    IN  [k \in 1..Cardinality(starts) |-> WordAt(Nth(starts, k))]

SOURCE_MAP ==
    << <<"NJ.com", "njdotcom">>, <<"NorthJersey.com", "northjersey">>,
       <<"The New York Times", "nytimes">>, <<"New York Times", "nytimes">>,
       <<"Gothamist", "gothamist">>, <<"WNYC", "wnyc">>,
       <<"New Jersey 101.5", "nj1015">>, <<"PIX11 News", "pix11">>,
       <<"PIX11", "pix11">>, <<"ABC7 New York", "abc7">>,
       <<"NJ Transit", "njtransit">>, <<"Amtrak Media", "amtrak">>,
       <<"NJ Spotlight News", "nj-spotlight">>, <<"Politico New Jersey", "politico-nj">>,
       <<"Hoboken Girl", "hobokengirl">>, <<"The Montclair Girl", "montclairgirl">>,
       <<"TAPinto", "tapinto">>, <<"Patch", "patch">>, <<"NJBIZ", "njbiz">>,
       <<"News 12 New Jersey", "news12">> >>

\* d.get(key, "") for a dict given as a sequence of pairs
Lookup(pairs, key) ==
    IF \E i \in 1..Len(pairs) : pairs[i][1] = key
    THEN pairs[CHOOSE i \in 1..Len(pairs) : pairs[i][1] = key][2]
    ELSE ""

LongWord(w) == Len(w) > 2

make_article_id(source, title, date) ==
    LET Id(mapped, words) ==
            (IF mapped /= "" THEN mapped ELSE StripCh(Slugify(Lower(source)), "-"))
                \o "-" \o Join(SelectSeq(Prefix(words, 4), LongWord), "-") \o "-" \o date
    IN  Id(Lookup(SOURCE_MAP, source), Words(KeepAlnumSpace(Lower(title))))

\* re.sub(r"\[([^\]]+)\]\([^)]+\)", r"\1", line): markdown links to their text.
\* LinkAt: whether a link starts at position i of s
LinkAt(s, i) ==
    LET Closed(close) ==
            /\ close >= i + 2
            /\ close + 1 <= Len(s) /\ Ch(s, close + 1) = "("
            /\ Find(From(s, close + 2), ")") >= 2
    IN  Ch(s, i) = "[" /\ Closed(i + Find(From(s, i + 1), "]"))

RECURSIVE StripLinks(_)
StripLinks(s) ==
    LET Cut(i, close) ==
            SubSeq(s, 1, i - 1) \o SubSeq(s, i + 1, close - 1)
                \o StripLinks(From(s, close + 2 + Find(From(s, close + 2), ")")))
        AtLink(i) == Cut(i, i + Find(From(s, i + 1), "]"))
    IN  IF \E i \in 1..Len(s) : LinkAt(s, i)
        THEN AtLink(CHOOSE n \in 1..Len(s) :
                        LinkAt(s, n) /\ \A m \in 1..(n - 1) : ~LinkAt(s, m))
        ELSE s

\* re.sub(r"[*_`]", "", s); the grave accent cannot occur in a string here
StripMarks(s) ==
    LET F(i) == IF Ch(s, i) \in {"*", "_"} THEN "" ELSE Ch(s, i)
    IN  ConcatMap(F, 1, Len(s))

\* s.rsplit(" ", 1)[0]
BeforeLastSpace(s) ==
    IF Contains(s, " ")
    THEN SubSeq(s, 1, (CHOOSE i \in 1..Len(s) :
                          Ch(s, i) = " " /\ \A j \in (i + 1)..Len(s) : Ch(s, j) /= " ") - 1)
    ELSE s

EXCERPT_MAX_CHARS == 400
EXCERPT_MIN_LINE == 40

\* the cleaned line when make_excerpt keeps it, "" when it skips it
ExcerptLine(raw) ==
    LET Kept(clean) == IF Len(clean) > EXCERPT_MIN_LINE THEN clean ELSE ""
        Of(line) ==
            IF line = "" \/ Ch(line, 1) \in {"#", "[", "!"} \/ Len(line) < EXCERPT_MIN_LINE
            THEN ""
            ELSE Kept(StripMarks(StripLinks(line)))
    IN  Of(Strip(raw))

NonEmpty(s) == s /= ""

make_excerpt(markdown) ==
    LET Cleaned(raw) == [i \in 1..Len(raw) |-> ExcerptLine(raw[i])]
        Cut(text) ==
            IF Len(text) > EXCERPT_MAX_CHARS
            THEN BeforeLastSpace(SubSeq(text, 1, EXCERPT_MAX_CHARS)) \o "..."
            ELSE text
    IN  IF ~Truthy(markdown) THEN ""
        ELSE Cut(Join(Prefix(SelectSeq(Cleaned(Split(markdown, "\n")), NonEmpty), 5), " "))

DOMAIN_MAP ==
    << <<"nj.com", "NJ.com">>, <<"northjersey.com", "NorthJersey.com">>,
       <<"nytimes.com", "The New York Times">>, <<"gothamist.com", "Gothamist">>,
       <<"wnyc.org", "WNYC">>, <<"nj1015.com", "New Jersey 101.5">>,
       <<"pix11.com", "PIX11 News">>, <<"abc7ny.com", "ABC7 New York">>,
       <<"politico.com", "Politico New Jersey">>,
       <<"njspotlightnews.org", "NJ Spotlight News">>, <<"tapinto.net", "TAPinto">>,
       <<"patch.com", "Patch">>, <<"njbiz.com", "NJBIZ">>,
       <<"hobokengirl.com", "Hoboken Girl">>,
       <<"themontclairgirl.com", "The Montclair Girl">>,
       <<"newjersey.news12.com", "News 12 New Jersey">>,
       <<"njtransit.com", "NJ Transit">>, <<"media.amtrak.com", "Amtrak Media">>,
       <<"cbsnews.com", "CBS News">>, <<"nbcnewyork.com", "NBC New York">>,
       <<"fox5ny.com", "Fox 5 New York">>, <<"silive.com", "SILive.com">>,
       <<"dailyrecord.com", "Daily Record">>, <<"app.com", "Asbury Park Press">> >>

source_name_from_url(url) ==
    LET Name(domain) ==
            IF \E i \in 1..Len(DOMAIN_MAP) : Contains(domain, DOMAIN_MAP[i][1])
            THEN DOMAIN_MAP[CHOOSE i \in 1..Len(DOMAIN_MAP) :
                    /\ Contains(domain, DOMAIN_MAP[i][1])
                    /\ \A j \in 1..(i - 1) : ~Contains(domain, DOMAIN_MAP[j][1])][2]
            ELSE domain
    IN  Name(Replace(Lower(urlparse(url).netloc), "www.", ""))

(***************************************************************************)
(* validate_article.  An article is a record of the ten fields; a field    *)
(* that is absent from the dict is NoneVal here (<<>> for lines): absent,  *)
(* None and empty all fail the same test, "not article[field]".            *)
(***************************************************************************)
REQUIRED ==
    <<"id", "title", "url", "source", "date", "category", "excerpt", "lines", "direction">>

\* field not in article or not article[field]
Missing(article, field) ==
    IF field = "lines" THEN article.lines = <<>> ELSE ~Truthy(article[field])

validate_article(article) ==
    LET missing == [i \in 1..Len(REQUIRED) |->
                        IF Missing(article, REQUIRED[i])
                        THEN "missing " \o REQUIRED[i] ELSE ""]
        date == IF Truthy(article.date) /\ ~MatchesDateRe(article.date)
                THEN <<"invalid date format: " \o article.date>> ELSE <<>>
        category == IF Truthy(article.category) /\ article.category \notin VALID_CATEGORIES
                    THEN <<"invalid category: " \o article.category>> ELSE <<>>
        direction == IF Truthy(article.direction) /\ article.direction \notin VALID_DIRECTIONS
                     THEN <<"invalid direction: " \o article.direction>> ELSE <<>>
        lines == [i \in 1..Len(article.lines) |->
                        IF article.lines[i] \notin VALID_LINES
                        THEN "invalid line: " \o article.lines[i] ELSE ""]
        url == IF Truthy(article.url) /\ ~StartsWith(article.url, "https")
               THEN <<"URL not HTTPS: " \o article.url>> ELSE <<>>
    IN  SelectSeq(missing, NonEmpty) \o date \o category \o direction
            \o SelectSeq(lines, NonEmpty) \o url

(***************************************************************************)
(* The web: what a HEAD request and a scrape of each URL return.           *)
(*   head.kind   "ok" (urlopen returned), "http" (HTTPError), "error"      *)
(*   scrape.ok   FALSE when app.scrape raises                              *)
(***************************************************************************)
NOT_FOUND_SIGNS ==
    {"404", "page not found", "doesn't appear to exist", "not found",
     "page you requested", "no longer available"}

NOT_FOUND_HEADER == 500

is_404_page_Never(metadata, markdown) == FALSE

is_404_page(metadata, markdown) ==
    \/ metadata.status_code = 404
    \/ Truthy(markdown) /\ AnyIn(NOT_FOUND_SIGNS, Lower(Prefix(markdown, NOT_FOUND_HEADER)))

\* re.sub(r"\s*[-|]\s*.*$", "", title).strip(), for a title of one line
CleanTitle(title) ==
    LET i == FindAny(title, {"-", "|"})
    IN  IF i = 0 THEN Strip(title) ELSE Strip(SubSeq(title, 1, i - 1))

NoScrape ==
    [some |-> FALSE, title |-> "", date |-> NoneVal, author |-> NoneVal,
     markdown |-> "", url |-> ""]

Or(a, b) == IF Truthy(a) THEN a ELSE b

\* scrape_article_metadata, given what app.scrape(url) returns: result holds
\* the markdown and, as status_code and attrs, the metadata object
scrape_article_metadata(result, url) ==
    IF ~result.ok THEN NoScrape
    ELSE IF is_404_page(result, result.markdown) THEN NoScrape
    ELSE [some |-> TRUE,
          title |-> CleanTitle(Or(Or(GetAttr(result, "og_title"), GetAttr(result, "title")),
                                  "")),
          date |-> Or(Or(Or(extract_date_from_metadata(result), extract_date_from_url(url)),
                         extract_date_from_markdown(result.markdown)),
                      NoneVal),
          author |-> extract_author_from_metadata(result),
          markdown |-> result.markdown, url |-> url]

(***************************************************************************)
(* Discovery adapters                                                      *)
(***************************************************************************)
DAY_NAMES == {"mon", "tue", "wed", "thu", "fri", "sat", "sun"}

\* parsedate_to_datetime(date_str).strftime("%Y-%m-%d") for the RFC 822 layout
\*   [Day,] DD Mon YYYY HH:MM[:SS] [zone]
\* and None (the exception) for everything else
parsedate(date_str) ==
    LET Date(dd, mm, yy, tm) ==
            IF /\ AllDigits(dd) /\ Len(dd) \in {1, 2}
               /\ AllDigits(yy) /\ Len(yy) = 4
               /\ Len(tm) \in {2, 3}
               /\ \A i \in 1..Len(tm) : tm[i] /= "" /\ AllDigits(tm[i])
               /\ ValidYMD(ToInt(yy), MonthNamed(mm), ToInt(dd))
            THEN FormatDate(ToInt(yy), MonthNamed(mm), ToInt(dd))
            ELSE NoneVal
        Of(data) ==
            IF Len(data) < 4 THEN NoneVal
            ELSE Date(data[1], Lower(data[2]), data[3], Split(data[4], ":"))
        Fields(all) ==
            Of(IF all /= <<>> /\ (Ch(all[1], Len(all[1])) = "," \/ Lower(all[1]) \in DAY_NAMES)
               THEN Tail(all) ELSE all)
    IN  Fields(Words(date_str))

\* re.sub(r"<[^>]+>", "", s)
TagAt(s, i) == Ch(s, i) = "<" /\ Find(From(s, i + 1), ">") >= 2

RECURSIVE StripTags(_)
StripTags(s) ==
    LET AtTag(i) ==
            SubSeq(s, 1, i - 1) \o StripTags(From(s, i + Find(From(s, i + 1), ">") + 1))
    IN  IF \E i \in 1..Len(s) : TagAt(s, i)
        THEN AtTag(CHOOSE n \in 1..Len(s) : TagAt(s, n) /\ \A m \in 1..(n - 1) : ~TagAt(s, m))
        ELSE s

DESCRIPTION_MAX == 500

\* The configuration (scrape-config.json): the feeds in their order, and the
\* Google News query.
CONFIG ==
    [rss_feeds |->
        << [id |-> "njcom", format |-> "rss", source_name |-> "NJ.com",
            filter_keywords |-> {"portal bridge", "portal north", "cutover"}],
           [id |-> "njtransit-alerts", format |-> "njtransit-custom",
            source_name |-> "NJ Transit", filter_keywords |-> {}],
           [id |-> "gothamist", format |-> "rss", source_name |-> "Gothamist",
            filter_keywords |-> {}] >>,
     google_news_query |-> "\"portal bridge\" nj transit"]

\* check_url_status, given what the HEAD request of url did:
\* <<status, final_url>>, <<0, NoneVal>> for (None, None)
check_url_status(head, url) ==
    IF head.kind = "ok" THEN <<head.status, head.final>>
    ELSE IF head.kind = "http" THEN <<head.status, url>>
    ELSE <<0, NoneVal>>

\* the URL a Google News link leads to: the response's URL, the link itself
\* when urlopen raises
ActualUrl(head, link) == IF head.kind = "ok" THEN head.final ELSE link

(***************************************************************************)
(* The environment: what the web answers.  A page is what app.scrape       *)
(* returns for its URL, a HEAD answer what urlopen(HEAD) does with it; a   *)
(* URL the table does not hold cannot be reached.                          *)
(***************************************************************************)
U_BEGINS == "https://www.nj.com/news/cutover-begins.html"
U_DAYTWO == "https://www.nj.com/news/cutover-day-two.html"
U_SHORT == "https://www.nj.com/r/123"
U_WORK == "https://gothamist.com/news/portal-bridge-work"
U_WORK_HTTP == "http://gothamist.com/news/portal-bridge-work"
U_DELAYS == "https://gothamist.com/2026/02/30/portal-bridge-delays"
U_TUNNEL == "https://gothamist.com/news/tunnel-update"
U_GNEWS == "https://news.google.com/rss/articles/CBMi1"
U_GONE == "https://news.google.com/rss/articles/CBMi2"
U_NJT == "https://www.njtransit.com/portal-cutover"
U_OUTAGE == "https://gothamist.com/news/portal-bridge-outage"
U_WNYC == "https://www.wnyc.org/story/service-cut"
U_MOVED == "https://gothamist.com/news/portal-bridge-what-to-know"
U_HOME == "https://gothamist.com/"
U_REMOVED == "https://www.nj.com/news/cutover-schedule.html"

MD_CUTOVER ==
    "# Portal Bridge cutover begins\n\nNJ Transit riders face weeks of reduced service as the Portal Bridge cutover begins."

\* a page whose first paragraphs run past the length of an excerpt
MD_DAYTWO ==
    "# Portal Bridge cutover begins\n\nOn the second day of the Portal Bridge cutover NJ Transit riders found fewer trains and longer trips into New York. Amtrak workers toiled through the night to shift the first track onto the new Portal North Bridge over the Hackensack River. Midtown Direct trains on the Morris and Essex lines were sent to Hoboken, where riders changed to PATH trains or to ferries. The agency said that the reduced schedule will stay in place for about four weeks while the signal systems are tested and that riders should allow extra time and check the schedule before they leave home."

MD_WORK ==
    "Crews finish work on the Portal North Bridge and Amtrak plans the next phase of it."

MD_TUNNEL ==
    "The Hudson tunnel project moves ahead with a new round of federal funding this year."

\* the front page of a site, with its headlines
MD_HOME ==
    "Latest: the Portal Bridge cutover enters its second week and riders are adjusting to it."

\* what a site answers, with status 200, for a story it has taken down
MD_REMOVED ==
    "Page not found. The Portal Bridge cutover story you requested is no longer available on this site."

Ok(final) == [kind |-> "ok", status |-> 200, final |-> final]

Page(attrs, markdown) ==
    [ok |-> TRUE, status_code |-> 200, attrs |-> attrs, markdown |-> markdown]

WEB ==
    << [url |-> U_BEGINS, head |-> Ok(U_BEGINS),
        page |-> Page(<< <<"title", "Portal Bridge cutover begins - nj.com">>,
                         <<"published_time", "2026-02-17T08:00:00Z">>,
                         <<"author", "Larry Higgs">> >>, MD_CUTOVER)],
       [url |-> U_DAYTWO, head |-> Ok(U_DAYTWO),
        page |-> Page(<< <<"og_title", "Portal Bridge cutover begins">> >>, MD_DAYTWO)],
       [url |-> U_SHORT, head |-> Ok(U_BEGINS),
        page |-> [ok |-> FALSE, status_code |-> 0, attrs |-> <<>>, markdown |-> ""]],
       [url |-> U_WORK, head |-> Ok(U_WORK_HTTP),
        page |-> Page(<< <<"title", "Portal bridge work wraps up">> >>, MD_WORK)],
       [url |-> U_WORK_HTTP, head |-> Ok(U_WORK_HTTP),
        page |-> Page(<< <<"title", "Portal bridge work wraps up">> >>, MD_WORK)],
       [url |-> U_DELAYS, head |-> Ok(U_DELAYS),
        page |-> Page(<< <<"title", "Portal Bridge delays | Gothamist">> >>, MD_WORK)],
       [url |-> U_TUNNEL, head |-> Ok(U_TUNNEL),
        page |-> Page(<< <<"title", "Hudson tunnel update">> >>, MD_TUNNEL)],
       [url |-> U_GNEWS, head |-> Ok(U_DAYTWO),
        page |-> [ok |-> FALSE, status_code |-> 0, attrs |-> <<>>, markdown |-> ""]],
       [url |-> U_GONE, head |-> [kind |-> "http", status |-> 404, final |-> U_GONE],
        page |-> [ok |-> FALSE, status_code |-> 0, attrs |-> <<>>, markdown |-> ""]],
       [url |-> U_NJT, head |-> Ok(U_NJT),
        page |-> Page(<< <<"title", "Portal North Bridge cutover">>,
                         <<"article_author", "NJ TRANSIT">> >>, MD_CUTOVER)],
       [url |-> U_OUTAGE, head |-> Ok(U_OUTAGE),
        page |-> [ok |-> FALSE, status_code |-> 0, attrs |-> <<>>, markdown |-> ""]],
       [url |-> U_WNYC, head |-> Ok(U_WNYC),
        page |-> Page(<< <<"title", "Service cut on the Northeast Corridor | WNYC">>,
                         <<"published_time", "2026-02-12T06:30:00-05:00">> >>, MD_WORK)],
       [url |-> U_MOVED, head |-> Ok(U_HOME),
        page |-> [ok |-> FALSE, status_code |-> 0, attrs |-> <<>>, markdown |-> ""]],
       [url |-> U_HOME, head |-> Ok(U_HOME),
        page |-> Page(<< <<"title", "Gothamist">> >>, MD_HOME)],
       [url |-> U_REMOVED, head |-> Ok(U_REMOVED),
        page |-> Page(<< <<"title", "Page not found - nj.com">> >>, MD_REMOVED)] >>

\* the row of the web for url; a URL it does not hold cannot be reached
WebRow(url) ==
    LET RowOf(web) ==
            IF \E i \in 1..Len(web) : web[i].url = url
            THEN web[CHOOSE i \in 1..Len(web) : web[i].url = url]
            ELSE [url |-> url, head |-> [kind |-> "error", status |-> 0, final |-> NoneVal],
                  page |-> [ok |-> FALSE, status_code |-> 0, attrs |-> <<>>,
                            markdown |-> ""]]
    IN  RowOf(WEB)



\* urllib.request.urlopen(Request(url, method="HEAD"))
HeadOf(url) == WebRow(url).head

\* app.scrape(url, formats=["markdown"])
ScrapeOf(url) == WebRow(url).page

(***************************************************************************)
(* The environment: what the feeds hold                                    *)
(***************************************************************************)
Item(title, link, pubDate, description) ==
    [title |-> title, link |-> link, pubDate |-> pubDate, description |-> description,
     source |-> ""]

\* the items the NJ.com feed can hold
NJCOM_ITEMS ==
    { Item("Portal Bridge cutover begins", U_BEGINS, "Mon, 16 Feb 2026 10:00:00 GMT",
           "<p>Riders face delays.</p>"),
      Item("Portal Bridge cutover begins", U_DAYTWO, "Tue, 17 Feb 2026 09:30:00 GMT",
           "Day two of the cutover."),
      Item("Portal Bridge cutover begins", U_SHORT, "Mon, 16 Feb 2026 10:00:00 GMT", ""),
      Item("Portal Bridge cutover schedule", U_REMOVED, "Sat, 21 Feb 2026 09:00:00 GMT",
           "") }

\* the items the Gothamist feed can hold
GOTHAMIST_ITEMS ==
    { Item("Portal bridge work wraps up", U_WORK, "Wed, 18 Feb 2026 12:00:00 -0500", ""),
      Item("Portal Bridge delays", U_DELAYS, "", ""),
      Item("Hudson tunnel update", U_TUNNEL, "Wed, 18 Feb 2026 12:00:00 -0500", ""),
      Item("Portal Bridge outage strands riders", U_OUTAGE, "Thu, 19 Feb 2026 07:15:00 GMT",
           "Riders were stranded for hours after a signal failure at the Portal Bridge."),
      Item("Portal Bridge cutover: what to know", U_MOVED, "2026-02-20T08:00:00Z",
           "") }

\* the items each feed of CONFIG can hold; the alerts feed has no <item>
FEED_ITEMS == <<NJCOM_ITEMS, {}, GOTHAMIST_ITEMS>>

\* the items the Google News search can return
GOOGLE_ITEMS ==
    { [Item("Portal Bridge cutover begins - NJ.com", U_GNEWS,
            "Tue, 17 Feb 2026 09:30:00 GMT", "") EXCEPT !.source = "NJ.com"],
      Item("Portal Bridge closure", U_GONE, "", "") }

\* every URL there is: those of the web, which is closed under its redirects
URLS ==
    {U_BEGINS, U_DAYTWO, U_SHORT, U_WORK, U_WORK_HTTP, U_DELAYS, U_TUNNEL, U_GNEWS, U_GONE,
     U_NJT, U_OUTAGE, U_WNYC, U_MOVED, U_HOME, U_REMOVED}

\* the most items the feeds hold together in one run
MaxItems == 2

\* the number of runs
MaxClock == 2

\* the calendar day of the run at clock t
Today(t) == FormatDate(2026, 3, t)

(***************************************************************************)
(* What the pure functions make of the environment, each computed once:    *)
(* a run looks up here what the code computes in its loops.                *)
(***************************************************************************)
NORMALIZED == [url \in URLS |-> normalize_url(url)]

\* is_blocked_site(url) or is_excluded_url(url)
BARRED == [url \in URLS |-> is_blocked_site(url) \/ is_excluded_url(url)]

BLOCKED == [url \in URLS |-> is_blocked_site(url)]

SCRAPED == [url \in URLS |-> scrape_article_metadata(ScrapeOf(url), url)]

\* one <item> of a standard feed as the adapter reads it, and what the loop
\* over the items finds out about it before it looks at the URLs seen
ReadRssItem(feed_config, raw) ==
    LET title == Strip(raw.title)
        link == Strip(raw.link)
        description == Prefix(StripTags(Strip(raw.description)), DESCRIPTION_MAX)
    IN  [usable |-> link /= "" /\ title /= "",
         wanted |-> \/ feed_config.filter_keywords = {}
                    \/ AnyIn(feed_config.filter_keywords,
                             Lower(title \o " " \o description)),
         norm |-> NORMALIZED[link],
         barred |-> BARRED[link],
         candidate |-> [url |-> link, title |-> title, description |-> description,
                        date |-> IF Truthy(raw.pubDate) THEN parsedate(raw.pubDate)
                                 ELSE NoneVal,
                        source |-> feed_config.source_name, from |-> "rss"]]

RSS_READ ==
    [f \in 1..Len(CONFIG.rss_feeds) |->
        [raw \in FEED_ITEMS[f] |-> ReadRssItem(CONFIG.rss_feeds[f], raw)]]

RECURSIVE FlattenItems_StopsAtFailure(_, _, _)
FlattenItems_StopsAtFailure(feeds, responses, f) ==
    IF f > Len(feeds) \/ ~responses[f].ok THEN <<>>
    ELSE (IF feeds[f].format = "njtransit-custom" THEN <<>>
          ELSE [i \in 1..Len(responses[f].items) |-> <<f, responses[f].items[i]>>])
         \o FlattenItems_StopsAtFailure(feeds, responses, f + 1)

\* the items of the feeds in the order the loops of poll_rss_feeds reach
\* them, each with the number of its feed: a feed whose fetch or parse
\* raised gives none (except clause of lines 621-622), and so does the
\* alerts feed (line 558)
RECURSIVE FlattenItems(_, _, _)
FlattenItems(feeds, responses, f) ==
    IF f > Len(feeds) THEN <<>>
    ELSE (IF ~responses[f].ok \/ feeds[f].format = "njtransit-custom" THEN <<>>
          ELSE [i \in 1..Len(responses[f].items) |-> <<f, responses[f].items[i]>>])
         \o FlattenItems(feeds, responses, f + 1)

\* the loop over the items of all feeds: seen_urls and candidates run on
\* from one feed to the next
RECURSIVE RssLoop(_, _, _, _, _)
RssLoop(items, i, existing_urls, seen_urls, candidates) ==
    LET Step(item) ==
            IF \/ ~item.usable
               \/ ~item.wanted
               \/ item.norm \in existing_urls \/ item.norm \in seen_urls
               \/ item.barred
            THEN RssLoop(items, i + 1, existing_urls, seen_urls, candidates)
            ELSE RssLoop(items, i + 1, existing_urls, seen_urls \cup {item.norm},
                         Append(candidates, item.candidate))
    IN  IF i > Len(items) THEN candidates
        ELSE Step(RSS_READ[items[i][1]][items[i][2]])

poll_rss_feeds(config, existing_urls, responses) ==
    RssLoop(FlattenItems(config.rss_feeds, responses, 1), 1, existing_urls, {}, <<>>)

\* the candidate of a Google News item whose link leads to actual_url
GoogleCandidate(raw, title, actual_url) ==
    [norm |-> NORMALIZED[actual_url],
     barred |-> BARRED[actual_url],
     candidate |-> [url |-> actual_url, title |-> title, description |-> "",
                    date |-> IF Truthy(raw.pubDate) THEN parsedate(raw.pubDate)
                             ELSE NoneVal,
                    source |-> Or(raw.source, source_name_from_url(actual_url)),
                    from |-> "google_news"]]

\* one <item> of the Google News answer as the adapter reads it: the link
\* is followed first, and the candidate is the page it leads to
ReadGoogleItem(raw) ==
    [usable |-> Strip(raw.link) /= "" /\ Strip(raw.title) /= ""]
        @@ GoogleCandidate(raw, Strip(raw.title),
                           ActualUrl(HeadOf(Strip(raw.link)), Strip(raw.link)))

GOOGLE_READ == [raw \in GOOGLE_ITEMS |-> ReadGoogleItem(raw)]

RECURSIVE GoogleLoop(_, _, _, _, _)
GoogleLoop(items, i, existing_urls, seen_urls, candidates) ==
    LET Step(item) ==
            IF \/ ~item.usable
               \/ item.norm \in existing_urls \/ item.norm \in seen_urls
               \/ item.barred
            THEN GoogleLoop(items, i + 1, existing_urls, seen_urls, candidates)
            ELSE GoogleLoop(items, i + 1, existing_urls, seen_urls \cup {item.norm},
                            Append(candidates, item.candidate))
    IN  IF i > Len(items) THEN candidates
        ELSE Step(GOOGLE_READ[items[i]])

poll_google_news(config, existing_urls, response) ==
    IF config.google_news_query = "" \/ ~response.ok THEN <<>>
    ELSE GoogleLoop(response.items, 1, existing_urls, {}, <<>>)

MergeCandidates_NoDedup(all, i, seen) == SubSeq(all, i, Len(all))

\* "Merge, dedup by URL": the first candidate of each normalized URL
RECURSIVE MergeCandidates(_, _, _)
MergeCandidates(all, i, seen) ==
    LET Step(norm) ==
            IF norm \in seen THEN MergeCandidates(all, i + 1, seen)
            ELSE <<all[i]>> \o MergeCandidates(all, i + 1, seen \cup {norm})
    IN  IF i > Len(all) THEN <<>> ELSE Step(NORMALIZED[all[i].url])

\* every candidate the feeds can bring up
CANDIDATES ==
    UNION {{RSS_READ[f][raw].candidate : raw \in FEED_ITEMS[f]} :
              f \in 1..Len(CONFIG.rss_feeds)}
    \cup {GOOGLE_READ[raw].candidate : raw \in GOOGLE_ITEMS}

(***************************************************************************)
(* The dataset and its order                                               *)
(***************************************************************************)
InsertByDate_BeforeEqual(sorted, x) ==
    LET Stays(i) == StrLess(x.date, sorted[i].date)
        k == Cardinality({i \in 1..Len(sorted) : \A j \in 1..i : Stays(j)})
    IN  SubSeq(sorted, 1, k) \o <<x>> \o SubSeq(sorted, k + 1, Len(sorted))

\* x goes behind every element whose date is not smaller: what sorting by
\* date, descending and stable, does with the element that comes last
InsertByDate(sorted, x) ==
    LET Stays(i) == ~StrLess(sorted[i].date, x.date)
        k == Cardinality({i \in 1..Len(sorted) : \A j \in 1..i : Stays(j)})
    IN  SubSeq(sorted, 1, k) \o <<x>> \o SubSeq(sorted, k + 1, Len(sorted))

\* articles.sort(key=lambda a: a["date"], reverse=True)
RECURSIVE SortByDateDesc(_)
SortByDateDesc(articles) ==
    IF articles = <<>> THEN <<>>
    ELSE InsertByDate(SortByDateDesc(SubSeq(articles, 1, Len(articles) - 1)),
                      articles[Len(articles)])

Ids(articles) == {articles[i].id : i \in 1..Len(articles)}

NormUrls(articles) == {NORMALIZED[articles[i].url] : i \in 1..Len(articles)}

(***************************************************************************)
(* run_discover                                                            *)
(***************************************************************************)
ID_SUFFIX_CHARS == 20

\* the record of lines 975-986, its fields classified from title and excerpt
ArticleOf(url, author, source, title, date, excerpt) ==
    [id |-> make_article_id(source, title, date),
     title |-> title, url |-> url, source |-> source,
     author |-> author, date |-> date,
     category |-> classify_category(url, title, excerpt),
     excerpt |-> excerpt,
     lines |-> classify_lines(title, excerpt),
     direction |-> classify_direction(title, excerpt)]

AssembleArticle_PageDateFirst(candidate, scraped, today) ==
    ArticleOf(candidate.url, scraped.author,
              Or(candidate.source, source_name_from_url(candidate.url)),
              Or(scraped.title, candidate.title),
              Or(Or(scraped.date, candidate.date), today),
              Or(make_excerpt(scraped.markdown), candidate.description))

\* the record run_discover assembles for a candidate that passed both gates
AssembleArticle(candidate, scraped, today) ==
    ArticleOf(candidate.url, scraped.author,
              Or(candidate.source, source_name_from_url(candidate.url)),
              Or(scraped.title, candidate.title),
              Or(Or(candidate.date, scraped.date), today),
              Or(make_excerpt(scraped.markdown), candidate.description))

\* the id with the suffix from the URL path that disambiguates it
PathSlug(url) == Suffix(StripCh(Slugify(Lower(urlparse(url).path)), "-"), ID_SUFFIX_CHARS)

PATH_SLUG == [url \in URLS |-> PathSlug(url)]

SuffixedId_Unchanged(id, url) == id

SuffixedId(id, url) == id \o "-" \o PATH_SLUG[url]

Rejected_NeverRejects(errors) == FALSE

\* "if errors: ... continue"
Rejected(errors) == errors /= <<>>

\* no record: what Examine gives for a candidate a gate has stopped
NoArticle ==
    [id |-> "", title |-> "", url |-> "", source |-> "", author |-> NoneVal,
     date |-> "", category |-> "", excerpt |-> "", lines |-> <<>>, direction |-> ""]

\* the validator's gate
Validated(article) ==
    [outcome |-> IF Rejected(validate_article(article)) THEN "invalid" ELSE "valid",
     article |-> article,
     errors |-> validate_article(article)]

\* the gates of the scrape and of the relevance of what was scraped
Gated(candidate, scraped, today) ==
    IF ~scraped.some
    THEN [outcome |-> "scrape", article |-> NoArticle, errors |-> <<>>]
    ELSE IF ~is_relevant_content(scraped.markdown)
    THEN [outcome |-> "irrelevant", article |-> NoArticle, errors |-> <<>>]
    ELSE Validated(AssembleArticle(candidate, scraped, today))

\* the gate of the HEAD request; the candidate goes on with the final URL
Fetched(candidate, today, checked) ==
    IF checked[1] /= 200
    THEN [outcome |-> "http", article |-> NoArticle, errors |-> <<>>]
    ELSE Gated([candidate EXCEPT !.url = checked[2]], SCRAPED[checked[2]], today)

\* one candidate up to the validator: which gate stops it ("http", "scrape",
\* "irrelevant", "invalid"), or "valid" and the record
Examine(candidate, today) ==
    Fetched(candidate, today, check_url_status(HeadOf(candidate.url), candidate.url))

EXAMINED == [candidate \in CANDIDATES |-> [t \in 1..MaxClock |-> Examine(candidate, Today(t))]]

\* the loop over the candidates: used_ids, new_articles and the log lines
RECURSIVE CandidateLoop(_, _, _, _, _)
CandidateLoop(candidates, i, t, used_ids, acc) ==
    LET Logged(outcome, id) ==
            Append(acc.log, [url |-> candidates[i].url, outcome |-> outcome, id |-> id])
        Add(ex, id1) ==
            IF ex.outcome /= "valid"
            THEN CandidateLoop(candidates, i + 1, t, used_ids,
                               [acc EXCEPT !.log = Logged(ex.outcome, "")])
            ELSE IF id1 \in used_ids
            THEN CandidateLoop(candidates, i + 1, t, used_ids,
                               [acc EXCEPT !.log = Logged("duplicate", "")])
            ELSE CandidateLoop(candidates, i + 1, t, used_ids \cup {id1},
                               [new_articles |-> Append(acc.new_articles,
                                                        [ex.article EXCEPT !.id = id1]),
                                log |-> Logged("added", id1)])
        Step(ex) ==
            Add(ex, IF ex.article.id \in used_ids
                    THEN SuffixedId(ex.article.id, ex.article.url)
                    ELSE ex.article.id)
    IN  IF i > Len(candidates) THEN acc ELSE Step(EXAMINED[candidates[i]][t])

NothingToAdd_GoesOn(new_articles) == FALSE

\* "if not new_articles: ... return 0"
NothingToAdd(new_articles) == new_articles = <<>>

Merged_OnlyNew(articles, new_articles) == SortByDateDesc(new_articles)

\* "Merge into coverage": extend, then sort
Merged(articles, new_articles) == SortByDateDesc(articles \o new_articles)

\* update_registry_timestamps and save_registry
TouchRegistry(reg, stamp) == [reg EXCEPT !.lastVerified = stamp, !.updatedAt = stamp]

\* run_discover from the processed candidates on: what is saved and counted
Concluded(cov, reg, t, dry_run, candidates, done) ==
    LET quiet == [coverage |-> cov, registry |-> reg, commits |-> 0, count |-> 0,
                  candidates |-> candidates, log |-> done.log,
                  new_articles |-> done.new_articles]
    IN  IF NothingToAdd(done.new_articles) THEN quiet
        ELSE IF dry_run THEN [quiet EXCEPT !.count = Len(done.new_articles)]
        ELSE [quiet EXCEPT
                !.coverage = [articles |-> Merged(cov.articles, done.new_articles),
                              lastUpdated |-> t],
                !.registry = TouchRegistry(reg, t),
                !.commits = 1,
                !.count = Len(done.new_articles)]

\* run_discover from the merged candidates on
Processed(cov, reg, t, dry_run, candidates) ==
    IF candidates = <<>>
    THEN [coverage |-> cov,
          registry |-> IF dry_run THEN reg ELSE TouchRegistry(reg, t),
          commits |-> 0, count |-> 0, candidates |-> candidates,
          log |-> <<>>, new_articles |-> <<>>]
    ELSE Concluded(cov, reg, t, dry_run, candidates,
                   CandidateLoop(candidates, 1, t, Ids(cov.articles),
                                 [new_articles |-> <<>>, log |-> <<>>]))

\* the candidates of both adapters, merged: lines 919-934
NewCandidates(cov, w) ==
    MergeCandidates(poll_rss_feeds(CONFIG, NormUrls(cov.articles), w.rss)
                    \o poll_google_news(CONFIG, NormUrls(cov.articles), w.gnews),
                    1, {})

run_discover(cov, reg, w, t, dry_run) ==
    Processed(cov, reg, t, dry_run, NewCandidates(cov, w))

(***************************************************************************)
(* run_verify                                                              *)
(***************************************************************************)
NoChange == [has |-> FALSE, old |-> NoneVal, new |-> NoneVal]

ChangesOf_AnyAuthor(article, scraped) ==
    [date |-> IF Truthy(scraped.date) /\ scraped.date /= article.date
              THEN [has |-> TRUE, old |-> article.date, new |-> scraped.date]
              ELSE NoChange,
     author |-> IF Truthy(scraped.author)
                THEN [has |-> TRUE, old |-> NoneVal, new |-> scraped.author]
                ELSE NoChange]

\* the changes verify_existing_articles finds for one article
ChangesOf(article, scraped) ==
    [date |-> IF Truthy(scraped.date) /\ scraped.date /= article.date
              THEN [has |-> TRUE, old |-> article.date, new |-> scraped.date]
              ELSE NoChange,
     author |-> IF Truthy(scraped.author) /\ ~Truthy(article.author)
                THEN [has |-> TRUE, old |-> NoneVal, new |-> scraped.author]
                ELSE NoChange]

RECURSIVE VerifyLoop(_, _)
VerifyLoop(articles, i) ==
    LET Found(article, changes) ==
            IF changes.date.has \/ changes.author.has
            THEN <<[id |-> article.id, url |-> article.url, changes |-> changes]>>
                 \o VerifyLoop(articles, i + 1)
            ELSE VerifyLoop(articles, i + 1)
        Step(article, scraped) ==
            IF ~scraped.some THEN VerifyLoop(articles, i + 1)
            ELSE Found(article, ChangesOf(article, scraped))
    IN  IF i > Len(articles) THEN <<>>
        ELSE IF BLOCKED[articles[i].url] THEN VerifyLoop(articles, i + 1)
        ELSE Step(articles[i], SCRAPED[articles[i].url])

verify_existing_articles(coverage_data) ==
    VerifyLoop(coverage_data.articles, 1)

\* id_to_article: the position of the record an id leads to, the last one of
\* that id; 0 when there is none
IdToArticle(articles, id) ==
    LET at == {i \in 1..Len(articles) : articles[i].id = id}
    IN  IF at = {} THEN 0 ELSE CHOOSE i \in at : \A j \in at : j <= i

Corrected_KeepsId(article, correction) ==
    [article EXCEPT
        !.date = IF correction.changes.date.has THEN correction.changes.date.new ELSE @,
        !.author = IF correction.changes.author.has THEN correction.changes.author.new ELSE @]

\* one correction on the record it reaches
Corrected(article, correction) ==
    LET ch == correction.changes
        a1 == IF ch.date.has THEN [article EXCEPT !.date = ch.date.new] ELSE article
        a2 == IF ch.author.has THEN [a1 EXCEPT !.author = ch.author.new] ELSE a1
    IN  IF ch.date.has /\ Contains(a2.id, ch.date.old)
        THEN [a2 EXCEPT !.id = Replace(a2.id, ch.date.old, ch.date.new)]
        ELSE a2

\* the loop of apply_corrections; at[id] is id_to_article, built before it
RECURSIVE CorrectionLoop(_, _, _, _)
CorrectionLoop(articles, at, corrections, i) ==
    IF i > Len(corrections) THEN [articles |-> articles, applied |-> 0]
    ELSE
    LET k == at[corrections[i].id]
        next == IF k = 0 THEN articles
                ELSE [articles EXCEPT ![k] = Corrected(articles[k], corrections[i])]
        rest == CorrectionLoop(next, at, corrections, i + 1)
    IN  [rest EXCEPT !.applied = rest.applied + (IF k = 0 THEN 0 ELSE 1)]

\* apply_corrections up to its sort: the records in their places, corrected
CorrectionsApplied(coverage_data, corrections) ==
    LET ids == {corrections[i].id : i \in 1..Len(corrections)}
        at == [id \in ids |-> IdToArticle(coverage_data.articles, id)]
    IN  CorrectionLoop(coverage_data.articles, at, corrections, 1)

apply_corrections(coverage_data, corrections) ==
    LET done == CorrectionsApplied(coverage_data, corrections)
    IN  [articles |-> SortByDateDesc(done.articles), applied |-> done.applied]

\* run_verify from the corrections found on: what is saved and counted
Reported(cov, t, dry_run, corrections) ==
    LET quiet == [coverage |-> cov, commits |-> 0, count |-> 0,
                  corrections |-> corrections]
        Saved(fixed) ==
            [quiet EXCEPT
                !.coverage = [articles |-> fixed.articles, lastUpdated |-> t],
                !.commits = 1,
                !.count = fixed.applied]
    IN  IF corrections = <<>> THEN quiet
        ELSE IF dry_run THEN [quiet EXCEPT !.count = Len(corrections)]
        ELSE Saved(apply_corrections(cov, corrections))

run_verify_AlwaysSaves(cov, t, dry_run) ==
    Reported(cov, t, FALSE, verify_existing_articles(cov))

run_verify(cov, t, dry_run) ==
    Reported(cov, t, dry_run, verify_existing_articles(cov))

\* the sequences of at most n different elements of S
RECURSIVE SeqsOf(_, _)
SeqsOf(S, n) ==
    IF n = 0 THEN {<<>>}
    ELSE LET shorter == SeqsOf(S, n - 1)
         IN  shorter \cup
             {Append(q, x) : <<q, x>> \in
                 {qx \in shorter \X S : \A i \in 1..Len(qx[1]) : qx[1][i] /= qx[2]}}

Up(items) == [ok |-> TRUE, items |-> items]

Down == [ok |-> FALSE, items |-> <<>>]

\* what the feeds of CONFIG, in their order, and the Google News search answer
\* in one run: items in some order, or no answer from any of them
Worlds ==
    {[rss |-> <<Up(a), Up(<<>>), Up(b)>>, gnews |-> Up(c)] :
        <<a, b, c>> \in
            {abc \in SeqsOf(FEED_ITEMS[1], MaxItems) \X SeqsOf(FEED_ITEMS[3], MaxItems)
                        \X SeqsOf(GOOGLE_ITEMS, MaxItems) :
                Len(abc[1]) + Len(abc[2]) + Len(abc[3]) <= MaxItems}}
    \cup {[rss |-> <<Down, Down, Down>>, gnews |-> Down]}

\* a record of the dataset as it is curated by hand
SEEDED ==
    [id |-> "njtransit-portal-north-bridge-2026-02-17",
     title |-> "Portal North Bridge cutover", url |-> U_NJT, source |-> "NJ Transit",
     author |-> NoneVal, date |-> "2026-02-17", category |-> "official",
     excerpt |-> "NJ Transit riders face weeks of reduced service.",
     lines |-> <<"all">>, direction |-> "both"]

NoRun ==
    [op |-> "none", dry_run |-> FALSE, count |-> 0, candidates |-> <<>>, log |-> <<>>,
     new_articles |-> <<>>, corrections |-> <<>>]

NoProbe == [article |-> SEEDED, errors |-> <<>>, checked |-> FALSE]

\* the most invocations of main() that run at a time
MaxProcs == 2

\* an invocation of main() that has not begun: where it is (pc), its
\* arguments, its clock, coverage_data as it loaded it and the lastUpdated
\* the file had then (base), the list it loops over and its place in it,
\* what the loop has gathered, and how the invocation ended
IdleProc ==
    [pc |-> "idle", op |-> "none", dry_run |-> FALSE, t |-> 0, base |-> 0,
     data |-> [articles |-> <<>>, lastUpdated |-> 0], candidates |-> <<>>, i |-> 0,
     acc |-> [new_articles |-> <<>>, log |-> <<>>], corrections |-> <<>>,
     wrote |-> FALSE, count |-> 0, raised |-> FALSE, notified |-> 0, exit |-> 0]

NoProcs == [p \in 1..MaxProcs |-> IdleProc]

(***************************************************************************)
(* The state machine: the two files, the commits made, and the runs of     *)
(* main(), each one atomic.                                                *)
(***************************************************************************)
Init ==
    /\ coverage \in {[articles |-> <<>>, lastUpdated |-> 0],
                     [articles |-> <<SEEDED>>, lastUpdated |-> 0]}
    /\ registry = [updatedAt |-> 0, lastVerified |-> 0]
    /\ commits = 0
    /\ now = 0
    /\ world = [rss |-> <<Up(<<>>), Up(<<>>), Up(<<>>)>>, gnews |-> Up(<<>>)]
    /\ run = NoRun
    /\ procs = NoProcs
    /\ probe = NoProbe

\* main() with --discover
Discover(dry_run) ==
    /\ now < MaxClock
    /\ \E w \in Worlds :
        \E r \in {run_discover(coverage, registry, w, now + 1, dry_run)} :
            /\ coverage' = r.coverage
            /\ registry' = r.registry
            /\ commits' = commits + r.commits
            /\ world' = w
            /\ run' = [op |-> "discover", dry_run |-> dry_run, count |-> r.count,
                       candidates |-> r.candidates, log |-> r.log,
                       new_articles |-> r.new_articles, corrections |-> <<>>]
    /\ now' = now + 1
    /\ UNCHANGED <<probe, procs>>

\* main() with --verify
Verify(dry_run) ==
    /\ now < MaxClock
    /\ \E r \in {run_verify(coverage, now + 1, dry_run)} :
           /\ coverage' = r.coverage
           /\ commits' = commits + r.commits
           /\ run' = [op |-> "verify", dry_run |-> dry_run, count |-> r.count,
                      candidates |-> <<>>, log |-> <<>>, new_articles |-> <<>>,
                      corrections |-> r.corrections]
    /\ now' = now + 1
    /\ UNCHANGED <<registry, world, probe, procs>>

Next ==
    \/ \E dry_run \in BOOLEAN : Discover(dry_run)
    \/ \E dry_run \in BOOLEAN : Verify(dry_run)

Spec == Init /\ [][Next]_vars

(***************************************************************************)
(* The validator on its own: records that differ from a valid one in a     *)
(* few fields, each handed to validate_article once.                       *)
(***************************************************************************)
\* the most fields of a record that differ from the valid one
MaxFaults == 2

\* what a field can hold; NoneVal is the field that is absent or None
FIELD_VALUES ==
    [id |-> {NoneVal, "", "x-2026-02-17"},
     title |-> {NoneVal, "", "Portal update"},
     url |-> {NoneVal, "", "https://a.com/b", "http://a.com/b", "httpsx://a.com/b",
              "ftp://a.com/b", "https.a.com/b"},
     source |-> {NoneVal, "", "NJ.com"},
     date |-> {NoneVal, "", "2026-02-17", "2026-02-30", "2026-13-45", "2025-02-29",
               "17 Feb 2026", "2026-2-17"},
     category |-> {NoneVal, "", "news", "sports"},
     excerpt |-> {NoneVal, "", "Riders face delays."},
     lines |-> {<<>>, <<"all">>, <<"all", "bogus">>, <<"morris-essex", "raritan-valley">>},
     direction |-> {NoneVal, "", "nj-to-nyc", "sideways"}]

\* the records with at most n fields changed
RECURSIVE Faulty(_)
Faulty(n) ==
    IF n = 0 THEN {[SEEDED EXCEPT !.author = "A. Writer"]}
    ELSE LET fewer == Faulty(n - 1)
         IN  fewer \cup
             UNION {{[a EXCEPT ![f] = v] : v \in FIELD_VALUES[f], a \in fewer} :
                       f \in DOMAIN FIELD_VALUES}

InitValidate ==
    /\ coverage = [articles |-> <<>>, lastUpdated |-> 0]
    /\ registry = [updatedAt |-> 0, lastVerified |-> 0]
    /\ commits = 0
    /\ now = 0
    /\ world = [rss |-> <<Up(<<>>), Up(<<>>), Up(<<>>)>>, gnews |-> Up(<<>>)]
    /\ run = NoRun
    /\ procs = NoProcs
    /\ probe \in {[article |-> a, errors |-> <<>>, checked |-> FALSE] : a \in Faulty(MaxFaults)}

\* errors = validate_article(article)
Validate ==
    /\ ~probe.checked
    /\ probe' = [probe EXCEPT !.errors = validate_article(probe.article), !.checked = TRUE]
    /\ UNCHANGED <<coverage, registry, commits, now, world, run, procs>>

NextValidate == Validate

SpecValidate == InitValidate /\ [][NextValidate]_vars

(***************************************************************************)
(* Properties of the dataset                                               *)
(***************************************************************************)
\* a run has just been made: the step is one of Next, not a stuttering step
Ran == now' = now + 1

\* C1: after any sequence of discover and verify runs, started from a
\* dataset of pairwise distinct ids, the ids of the records are pairwise
\* distinct.
C1_IdsPairwiseDistinct ==
    \A i, j \in 1..Len(coverage.articles) :
        i /= j => coverage.articles[i].id /= coverage.articles[j].id

\* C2: no two records of the dataset have the same canonical URL, so that
\* no run adds a record whose canonical URL a record already has.
C2_CanonicalUrlsDistinct ==
    \A i, j \in 1..Len(coverage.articles) :
        i /= j => normalize_url(coverage.articles[i].url)
                    /= normalize_url(coverage.articles[j].url)

\* C3: a discover run that follows a discover run which has written its
\* records, and that sees the same feeds and the same pages, leaves the
\* articles as they are.
C3_SecondRunAddsNothing ==
    [][(/\ run.op = "discover" /\ ~run.dry_run
        /\ Ran /\ run'.op = "discover" /\ world' = world)
       => coverage'.articles = coverage.articles]_vars

\* C4: a discover run with no new valid record, and a verify run with no
\* correction, leave the articles and lastUpdated as they were.
C4_NothingNewNothingWritten ==
    [][(/\ Ran
        /\ \/ run'.op = "discover" /\ run'.new_articles = <<>>
           \/ run'.op = "verify" /\ run'.corrections = <<>>)
       => coverage' = coverage]_vars

\* a discover run in which every candidate was turned down has left the
\* seeded dataset and its lastUpdated alone
C4_Witness ==
    /\ run.op = "discover" /\ ~run.dry_run
    /\ run.candidates /= <<>> /\ run.new_articles = <<>>
    /\ coverage = [articles |-> <<SEEDED>>, lastUpdated |-> 0]

IsSortedDesc(articles) ==
    \A i \in 1..(Len(articles) - 1) : ~StrLess(articles[i].date, articles[i + 1].date)

\* the records of each date are the same in both, in the same order
SameOrderPerDate(after, before) ==
    /\ Len(after) = Len(before)
    /\ \A d \in {before[i].date : i \in 1..Len(before)} :
          LET Dated(a) == a.date = d
          IN  SelectSeq(after, Dated) = SelectSeq(before, Dated)

\* the articles as the run that is being made has them before it sorts
BeforeSort ==
    IF run'.op = "discover" THEN coverage.articles \o run'.new_articles
    ELSE CorrectionsApplied(coverage, run'.corrections).articles

\* C5: whenever a run writes the dataset, the articles are in descending
\* order of date, and the records of equal date are in the order they had
\* before the sort, the existing records before the appended ones.
C5_SortedByDateStable ==
    [][coverage' /= coverage
       => /\ IsSortedDesc(coverage'.articles)
          /\ SameOrderPerDate(coverage'.articles, BeforeSort)]_vars

\* a written dataset with records of one date and records of another
C5_Witness ==
    /\ coverage.lastUpdated >= 1
    /\ \E i, j, k \in 1..Len(coverage.articles) :
          /\ i < j
          /\ coverage.articles[i].date = coverage.articles[j].date
          /\ coverage.articles[k].date /= coverage.articles[i].date

Count(articles, r) == Cardinality({i \in 1..Len(articles) : articles[i] = r})

\* C6: a discover run leaves every record of the dataset in it, all fields
\* as they were, and takes none away: it only adds.
C6_DiscoverOnlyAdds ==
    [][(Ran /\ run'.op = "discover")
       => /\ \A i \in 1..Len(coverage.articles) :
                Count(coverage'.articles, coverage.articles[i])
                    >= Count(coverage.articles, coverage.articles[i])
          /\ Len(coverage'.articles) >= Len(coverage.articles)]_vars

\* a discover run that added records to a dataset that had some
C6_Witness ==
    /\ run.op = "discover" /\ ~run.dry_run /\ run.count > 0
    /\ Len(coverage.articles) > run.count

\* the record of the candidate is in the dataset, under its id or the
\* suffixed one
Persisted(article) ==
    \E i \in 1..Len(coverage.articles) :
        [coverage.articles[i] EXCEPT !.id = article.id] = article

\* C7: in a discover run every candidate is gone through; the record of one
\* that the validator turns down is not in the dataset, and the record of
\* every one that passes the gates and whose id is free is.
C7_RejectionDoesNotAbort ==
    (run.op = "discover" /\ run.candidates /= <<>>)
    => /\ Len(run.log) = Len(run.candidates)
       /\ \A k \in 1..Len(run.candidates) :
            LET ex == EXAMINED[run.candidates[k]][now]
            IN  /\ ex.errors /= <<>>
                   => /\ run.log[k].outcome = "invalid"
                      /\ ~Persisted(ex.article)
                /\ (ex.outcome = "valid" /\ run.log[k].outcome /= "duplicate"
                    /\ ~run.dry_run)
                   => Persisted(ex.article)

\* a run that turned a candidate down and added the one after it
C7_Witness ==
    /\ run.op = "discover" /\ ~run.dry_run
    /\ \E k \in 1..(Len(run.log) - 1) :
          /\ run.log[k].outcome = "invalid"
          /\ run.log[k + 1].outcome = "added"
          /\ \E i \in 1..Len(coverage.articles) :
                coverage.articles[i].id = run.log[k + 1].id

Names(errors, text) == \E i \in 1..Len(errors) : Contains(errors[i], text)

\* C9: for each required field that is absent or empty the validator's list
\* has a message naming it; a category, a direction or a line tag outside
\* its closed set and a URL whose scheme is not https each have a message.
C9_ViolationsListed ==
    probe.checked
    => LET a == probe.article
       IN  /\ \A i \in 1..Len(REQUIRED) :
                Missing(a, REQUIRED[i]) => Names(probe.errors, REQUIRED[i])
           /\ (Truthy(a.category) /\ a.category \notin VALID_CATEGORIES)
                => Names(probe.errors, "category")
           /\ (Truthy(a.direction) /\ a.direction \notin VALID_DIRECTIONS)
                => Names(probe.errors, "direction")
           /\ (\E i \in 1..Len(a.lines) : a.lines[i] \notin VALID_LINES)
                => Names(probe.errors, "line")
           /\ (Truthy(a.url) /\ urlparse(a.url).scheme /= "https")
                => Names(probe.errors, "URL")

\* C10: the validator has no message for a date only if the date has the
\* shape YYYY-MM-DD and names a day of the calendar.
C10_OnlyCalendarDates ==
    (probe.checked /\ Truthy(probe.article.date) /\ ~Names(probe.errors, "date"))
    => IsRealDate(probe.article.date)

(***************************************************************************)
(* Properties of the records a discover run builds                         *)
(***************************************************************************)
\* C11: every record a discover run has persisted has an excerpt of at most
\* 400 characters, whether the excerpt was cut from the text of the page or
\* is the description the adapter supplied.
C11_ExcerptAtMost400 ==
    \A i \in 1..Len(coverage.articles) :
        Len(coverage.articles[i].excerpt) <= EXCERPT_MAX_CHARS

(***************************************************************************)
(* make_article_id on its own: a source, a title and a date, handed to it  *)
(* once.                                                                   *)
(***************************************************************************)
ID_SOURCES == {"NJ.com", "Gothamist", "NJ Spotlight News", "Hudson Reporter"}

ID_TITLES ==
    {"NJ Transit diverts Montclair-Boonton trains to Hoboken during Portal Bridge work",
     "Portal Bridge cutover begins",
     "Portal North Bridge cutover: what riders need to know",
     "Amtrak to cut service as it moves a track",
     "Hoboken ferries add trips",
     "Delays",
     "What's next for the $1.5 billion bridge?"}

ID_DATES == {"2026-02-16", "2026-03-01"}

InitId ==
    /\ coverage = [articles |-> <<>>, lastUpdated |-> 0]
    /\ registry = [updatedAt |-> 0, lastVerified |-> 0]
    /\ commits = 0
    /\ now = 0
    /\ world = [rss |-> <<Up(<<>>), Up(<<>>), Up(<<>>)>>, gnews |-> Up(<<>>)]
    /\ run = NoRun
    /\ procs = NoProcs
    /\ probe \in {[source |-> s, title |-> t, date |-> d, id |-> "", made |-> FALSE] :
                    s \in ID_SOURCES, t \in ID_TITLES, d \in ID_DATES}

\* "id": make_article_id(source, title, date)
MakeId ==
    /\ ~probe.made
    /\ probe' = [probe EXCEPT !.id = make_article_id(probe.source, probe.title, probe.date),
                              !.made = TRUE]
    /\ UNCHANGED <<coverage, registry, commits, now, world, run, procs>>

NextId == MakeId

SpecId == InitId /\ [][NextId]_vars

\* the words of a title that count: lower-cased, longer than 2 characters
MeaningfulWords(title) == SelectSeq(Words(KeepAlnumSpace(Lower(title))), LongWord)

\* the prefix of a source: from the table, or the slug of the name
SourcePrefix(source) ==
    IF Lookup(SOURCE_MAP, source) /= "" THEN Lookup(SOURCE_MAP, source)
    ELSE StripCh(Slugify(Lower(source)), "-")

\* C12: the id is the prefix of the source, the first four meaningful words
\* of the title joined by hyphens, and the date, joined by hyphens; for
\* NJ.com, the title of the Montclair-Boonton diversion and 2026-02-16 it
\* begins with njdotcom-nj-transit-diverts-montclair-2026-02-16.
C12_IdFromFirstFourMeaningfulWords ==
    probe.made
    => /\ probe.id = SourcePrefix(probe.source) \o "-"
                        \o Join(Prefix(MeaningfulWords(probe.title), 4), "-")
                        \o "-" \o probe.date
       /\ (/\ probe.source = "NJ.com"
           /\ probe.title = "NJ Transit diverts Montclair-Boonton trains to Hoboken during Portal Bridge work"
           /\ probe.date = "2026-02-16")
          => StartsWith(probe.id, "njdotcom-nj-transit-diverts-montclair-2026-02-16")

\* the ids in use when the run that is being made comes to its k-th
\* candidate: those of the dataset and those the run has given out
UsedBefore(k) ==
    Ids(coverage.articles)
        \cup {run'.log[j].id : j \in {j \in 1..(k - 1) : run'.log[j].outcome = "added"}}

\* the base id with the last 20 characters of the slug of the URL's path
WithPathSuffix(article) ==
    article.id \o "-"
        \o Suffix(StripCh(Slugify(Lower(urlparse(article.url).path)), "-"), ID_SUFFIX_CHARS)

\* C13: in a discover run a record whose base id is in use gets the suffix
\* of its URL path and is persisted under the suffixed id, so that records
\* with colliding base ids are persisted under distinct ids; when the
\* suffixed id is in use too the record is dropped.
C13_CollidingIdGetsPathSuffix ==
    [][(Ran /\ run'.op = "discover")
       => /\ \A k \in 1..Len(run'.log) :
                LET ex == EXAMINED[run'.candidates[k]][now']
                    entry == run'.log[k]
                IN  ex.outcome = "valid"
                    => /\ ex.article.id \notin UsedBefore(k)
                            => entry.outcome = "added" /\ entry.id = ex.article.id
                       /\ (/\ ex.article.id \in UsedBefore(k)
                           /\ WithPathSuffix(ex.article) \notin UsedBefore(k))
                            => /\ entry.outcome = "added"
                               /\ entry.id = WithPathSuffix(ex.article)
                       /\ (/\ ex.article.id \in UsedBefore(k)
                           /\ WithPathSuffix(ex.article) \in UsedBefore(k))
                            => entry.outcome = "duplicate"
                       /\ (entry.outcome = "added" /\ ~run'.dry_run)
                            => \E i \in 1..Len(coverage'.articles) :
                                  coverage'.articles[i] = [ex.article EXCEPT !.id = entry.id]
          /\ ~run'.dry_run
                => Len(coverage'.articles) = Len(coverage.articles)
                     + Cardinality({k \in 1..Len(run'.log) : run'.log[k].outcome = "added"})
          /\ \A k \in 1..Len(run'.log) :
                run'.log[k].outcome = "added" => run'.log[k].id \notin UsedBefore(k)]_vars

\* a dataset with a record under a suffixed id next to the record of the
\* base id, after a run that dropped a record whose suffixed id was in use
C13_Witness ==
    /\ run.op = "discover" /\ ~run.dry_run
    /\ \E k \in 1..Len(run.log) : run.log[k].outcome = "duplicate"
    /\ \E i, j \in 1..Len(coverage.articles) :
          /\ i /= j
          /\ coverage.articles[j].id = WithPathSuffix([coverage.articles[j] EXCEPT
                                                          !.id = coverage.articles[i].id])

(***************************************************************************)
(* Verify runs on datasets curated by hand: records whose ids hold their   *)
(* date, hold another date, or hold none.                                  *)
(***************************************************************************)
\* the most records of a curated dataset
MaxRecords == 2

Curated(id, url, source, date) ==
    [SEEDED EXCEPT !.id = id, !.url = url, !.source = source, !.date = date,
                   !.title = "Service cut", !.category = "news"]

CURATED ==
    { SEEDED,
      Curated("wnyc-service-cut-2026-02-10", U_WNYC, "WNYC", "2026-02-10"),
      Curated("wnyc-service-cut", U_WNYC, "WNYC", "2026-02-10"),
      Curated("wnyc-service-cut-2026-02-11", U_WNYC, "WNYC", "2026-02-10"),
      Curated("wnyc-2026-02-10-recap-2026-02-10", U_WNYC, "WNYC", "2026-02-10"),
      Curated("wnyc-service-cut-2026-02-12-b", U_WNYC, "WNYC", "2026-02-12"),
      Curated("njdotcom-portal-bridge-cutover-begins-2026-02-16", U_BEGINS, "NJ.com",
              "2026-02-16"),
      [SEEDED EXCEPT !.id = "njtransit-portal-cutover-2026-02-17",
                     !.author = "Press office"] }

InitCurated ==
    /\ coverage \in {[articles |-> q, lastUpdated |-> 0] : q \in SeqsOf(CURATED, MaxRecords)}
    /\ registry = [updatedAt |-> 0, lastVerified |-> 0]
    /\ commits = 0
    /\ now = 0
    /\ world = [rss |-> <<Up(<<>>), Up(<<>>), Up(<<>>)>>, gnews |-> Up(<<>>)]
    /\ run = NoRun
    /\ procs = NoProcs
    /\ probe = NoProbe

NextCurated == \E dry_run \in BOOLEAN : Verify(dry_run)

SpecCurated == InitCurated /\ [][NextCurated]_vars

\* C14: when a verify run applies a date correction to a record, the date
\* of the record becomes the date scraped from its page, and its id has the
\* old date replaced by the new one if the old date occurs in the id and is
\* left as it is otherwise; wnyc-service-cut-2026-02-10 of 2026-02-10,
\* scraped as 2026-02-12, becomes wnyc-service-cut-2026-02-12.
C14_IdFollowsDateCorrection ==
    [][(Ran /\ run'.op = "verify" /\ ~run'.dry_run)
       => \A c \in Range(run'.corrections) :
            \A old \in Range(coverage.articles) :
                (c.changes.date.has /\ old.id = c.id)
                => /\ c.changes.date.new = SCRAPED[old.url].date
                   /\ \E new \in Range(coverage'.articles) :
                        /\ new.url = old.url /\ new.title = old.title
                        /\ new.date = SCRAPED[old.url].date
                        /\ new.id = IF Contains(old.id, old.date)
                                    THEN Replace(old.id, old.date, new.date)
                                    ELSE old.id
                        /\ (old.id = "wnyc-service-cut-2026-02-10"
                            /\ old.date = "2026-02-10" /\ new.date = "2026-02-12")
                           => new.id = "wnyc-service-cut-2026-02-12"]_vars

\* a dataset after a verify run that corrected two dates: one id rewritten,
\* the other, which did not hold the old date, as it was
C14_Witness ==
    /\ run.op = "verify" /\ ~run.dry_run /\ run.count = 2
    /\ \E a, b \in Range(coverage.articles) :
          /\ a.id = "wnyc-service-cut-2026-02-12" /\ a.date = "2026-02-12"
          /\ b.id = "wnyc-service-cut-2026-02-11" /\ b.date = "2026-02-12"

\* the record of a candidate from what the adapter supplied alone
AdapterOnly(candidate, url, today) ==
    ArticleOf(url, NoneVal, Or(candidate.source, source_name_from_url(url)),
              candidate.title, Or(candidate.date, today), candidate.description)

\* C15: a candidate whose page could not be fetched at all is not turned
\* down for that: when the title, date and description the adapter supplied
\* make a record the validator accepts, the run persists a record for it.
C15_FailedFetchFallsBackToAdapter ==
    (run.op = "discover" /\ ~run.dry_run)
    => \A k \in 1..Len(run.candidates) :
          LET candidate == run.candidates[k]
              checked == check_url_status(HeadOf(candidate.url), candidate.url)
          IN  (/\ checked[1] = 200
               /\ ~SCRAPED[checked[2]].some
               /\ validate_article(AdapterOnly(candidate, checked[2], Today(now))) = <<>>)
              => \E a \in Range(coverage.articles) : a.url = checked[2]

(***************************************************************************)
(* Invocations of main() step by step: each loads the dataset file, goes   *)
(* through its loop one candidate or one record at a time, saves and       *)
(* commits.  The steps of invocations interleave, since nothing locks the  *)
(* file, and an invocation can be killed between any two of its steps.     *)
(***************************************************************************)
load_coverage_Empty(file) == [articles |-> <<>>, lastUpdated |-> 0]

\* json.load of the dataset file
load_coverage(file) == file

\* the item of a feed with the given link
ItemAt(items, link) == CHOOSE item \in items : item.link = link

\* what the feeds answer to the invocations
STEP_WORLDS ==
    { [rss |-> <<Up(<<ItemAt(NJCOM_ITEMS, U_BEGINS), ItemAt(NJCOM_ITEMS, U_SHORT)>>),
                 Up(<<>>), Up(<<>>)>>, gnews |-> Up(<<>>)],
      [rss |-> <<Up(<<ItemAt(NJCOM_ITEMS, U_DAYTWO)>>), Up(<<>>),
                 Up(<<ItemAt(GOTHAMIST_ITEMS, U_WORK)>>)>>, gnews |-> Up(<<>>)],
      [rss |-> <<Up(<<>>), Up(<<>>),
                 Up(<<ItemAt(GOTHAMIST_ITEMS, U_TUNNEL), ItemAt(GOTHAMIST_ITEMS, U_OUTAGE)>>)>>,
       gnews |-> Up(<<>>)],
      [rss |-> <<Down, Down, Down>>, gnews |-> Down] }

TopLevel_ExitsZero(proc, raised) ==
    [proc EXCEPT !.pc = "done", !.raised = raised, !.exit = 0,
                 !.notified = IF raised THEN @ + 1 ELSE @]

\* the except clause of main(): an exception that escaped the run is
\* logged, sent to Telegram, and the process exits with status 1; a run
\* that returned exits with status 0
TopLevel(proc, raised) ==
    [proc EXCEPT !.pc = "done", !.raised = raised,
                 !.exit = IF raised THEN 1 ELSE 0,
                 !.notified = IF raised THEN @ + 1 ELSE @]

\* the loop of an invocation is through: i is past the n entries of its list
Batched_Early(n, i) == i >= n

Batched(n, i) == i > n

\* the length of the list the loop of an invocation goes over
LoopLen(proc) ==
    IF proc.op = "discover" THEN Len(proc.candidates) ELSE Len(proc.data.articles)

InitProcesses ==
    /\ coverage \in {[articles |-> <<SEEDED>>, lastUpdated |-> 0],
                     [articles |-> <<Curated("njdotcom-portal-bridge-cutover-begins-2026-02-16",
                                           U_BEGINS, "NJ.com", "2026-02-16")>>,
                      lastUpdated |-> 0]}
    /\ registry = [updatedAt |-> 0, lastVerified |-> 0]
    /\ commits = 0
    /\ now = 0
    /\ world = [rss |-> <<Up(<<>>), Up(<<>>), Up(<<>>)>>, gnews |-> Up(<<>>)]
    /\ run = NoRun
    /\ probe = NoProbe
    /\ procs = NoProcs

\* main() up to coverage_data = load_coverage(), which raises when the file
\* cannot be opened or is not JSON
Load(p, op, dry_run, failed) ==
    /\ procs[p].pc = "idle"
    /\ now < MaxClock
    /\ now' = now + 1
    /\ procs' = [procs EXCEPT ![p] =
            IF failed
            THEN TopLevel([@ EXCEPT !.op = op, !.dry_run = dry_run, !.t = now + 1], TRUE)
            ELSE [@ EXCEPT !.pc = IF op = "discover" THEN "loaded" ELSE "loop",
                           !.op = op, !.dry_run = dry_run, !.t = now + 1,
                           !.base = coverage.lastUpdated,
                           !.data = load_coverage(coverage), !.i = 1]]
    /\ UNCHANGED <<coverage, registry, commits, world, run, probe>>

\* run_discover from the polls to the merged candidates; with none it
\* touches the registry and returns
Poll(p, w) ==
    /\ procs[p].pc = "loaded"
    /\ \E candidates \in {NewCandidates(procs[p].data, w)} :
        IF candidates = <<>>
        THEN /\ registry' = IF procs[p].dry_run THEN registry
                            ELSE TouchRegistry(registry, procs[p].t)
             /\ procs' = [procs EXCEPT ![p] = TopLevel(@, FALSE)]
        ELSE /\ registry' = registry
             /\ procs' = [procs EXCEPT ![p].pc = "loop", ![p].candidates = candidates]
    /\ world' = w
    /\ UNCHANGED <<coverage, commits, now, run, probe>>

\* one pass of the loop: over a candidate in run_discover, over a record in
\* verify_existing_articles
Step(p) ==
    /\ procs[p].pc = "loop"
    /\ ~Batched(LoopLen(procs[p]), procs[p].i)
    /\ procs' = [procs EXCEPT ![p] =
            IF @.op = "discover"
            THEN [@ EXCEPT !.i = @ + 1,
                           !.acc = CandidateLoop(SubSeq(procs[p].candidates, 1, procs[p].i),
                                        procs[p].i, procs[p].t,
                                        Ids(procs[p].data.articles)
                                            \cup Ids(procs[p].acc.new_articles),
                                        procs[p].acc)]
            ELSE [@ EXCEPT !.i = @ + 1,
                           !.corrections = @ \o VerifyLoop(SubSeq(procs[p].data.articles, 1,
                                                                  procs[p].i), procs[p].i)]]
    /\ UNCHANGED <<coverage, registry, commits, now, world, run, probe>>

\* after the loop: the run returns when there is nothing to write or the
\* run is dry, and else merges or corrects coverage_data and saves it
Finish(p) ==
    /\ procs[p].pc = "loop"
    /\ Batched(LoopLen(procs[p]), procs[p].i)
    /\ \E r \in {IF procs[p].op = "discover"
                 THEN Concluded(procs[p].data, registry, procs[p].t, procs[p].dry_run,
                                procs[p].candidates, procs[p].acc)
                 ELSE Reported(procs[p].data, procs[p].t, procs[p].dry_run,
                               procs[p].corrections) @@ [registry |-> registry]} :
        IF r.commits = 1
        THEN /\ coverage' = r.coverage
             /\ procs' = [procs EXCEPT ![p].pc = "publish", ![p].wrote = TRUE,
                                       ![p].count = r.count]
        ELSE /\ coverage' = coverage
             /\ procs' = [procs EXCEPT ![p] = TopLevel([@ EXCEPT !.count = r.count], FALSE)]
    /\ UNCHANGED <<registry, commits, now, world, run, probe>>

\* after the save: the registry (run_discover), then git_commit_and_push,
\* which commits and pushes, or catches a failed git command and reports
\* it, or lets the timeout of a git command escape
Publish(p, git) ==
    /\ procs[p].pc = "publish"
    /\ registry' = IF procs[p].op = "discover" THEN TouchRegistry(registry, procs[p].t)
                   ELSE registry
    /\ commits' = IF git = "pushed" THEN commits + 1 ELSE commits
    /\ procs' = [procs EXCEPT ![p] =
            IF git = "timeout" THEN TopLevel(@, TRUE)
            ELSE TopLevel([@ EXCEPT !.notified = IF git = "failed" THEN @ + 1 ELSE @], FALSE)]
    /\ UNCHANGED <<coverage, now, world, run, probe>>

\* the process of an invocation is killed between two of its steps
Kill(p) ==
    /\ procs[p].pc \in {"loaded", "loop", "publish"}
    /\ procs' = [procs EXCEPT ![p].pc = "killed"]
    /\ UNCHANGED <<coverage, registry, commits, now, world, run, probe>>

NextProcesses ==
    \E p \in 1..MaxProcs :
        \/ \E op \in {"discover", "verify"}, dry_run, failed \in BOOLEAN :
                Load(p, op, dry_run, failed)
        \/ \E w \in STEP_WORLDS : Poll(p, w)
        \/ Step(p)
        \/ Finish(p)
        \/ \E git \in {"pushed", "failed", "timeout"} : Publish(p, git)
        \/ Kill(p)

SpecProcesses == InitProcesses /\ [][NextProcesses]_vars

(***************************************************************************)
(* Properties of the invocations                                           *)
(***************************************************************************)
\* the invocation turned down or skipped a candidate in its loop
TurnedDown(proc) ==
    \E k \in 1..Len(proc.acc.log) : proc.acc.log[k].outcome /= "added"

\* C16: an exception that escapes a discover or verify run is caught at the
\* top level: the notification is sent once and the process exits with a
\* status other than zero; a run that only skipped or turned down candidates
\* or records, with no exception, exits with status zero.
C16_EscapedExceptionNotifiesAndExitsNonZero ==
    \A p \in 1..MaxProcs :
        procs[p].pc = "done"
        => /\ procs[p].raised => (procs[p].notified = 1 /\ procs[p].exit /= 0)
           /\ ~procs[p].raised => procs[p].exit = 0

\* one invocation ended by the timeout of a git command, after its save,
\* and another that turned candidates down ended without exception
C16_Witness ==
    \E p, q \in 1..MaxProcs :
        /\ procs[p].pc = "done" /\ procs[p].raised /\ procs[p].wrote
        /\ procs[p].exit = 1 /\ procs[p].notified = 1
        /\ procs[q].pc = "done" /\ ~procs[q].raised /\ TurnedDown(procs[q])
        /\ procs[q].exit = 0

\* what the invocation wrote is in the file: the records it added, and the
\* values it corrected in the records it corrected
ChangesKept(proc) ==
    IF proc.op = "discover"
    THEN \A a \in Range(proc.acc.new_articles) :
            \E r \in Range(coverage.articles) :
                r.url = a.url /\ r.title = a.title /\ r.excerpt = a.excerpt
    ELSE \A c \in Range(proc.corrections) :
            \E r \in Range(coverage.articles) :
                /\ r.url = c.url
                /\ c.changes.date.has => r.date = c.changes.date.new
                /\ c.changes.author.has => r.author = c.changes.author.new

\* q saved after p saved and had loaded the file before p saved it
Overtaken(p, q) ==
    /\ procs[p].wrote /\ procs[q].wrote
    /\ coverage.lastUpdated = procs[q].t
    /\ procs[q].base /= procs[p].t

\* C17: nothing locks the dataset file.  What an invocation wrote stays in
\* the file unless another invocation that had loaded the file before that
\* write saves after it: invocations that run one after the other lose
\* nothing, and of two that both load before either saves, the one that
\* saves first can lose what it wrote.
C17_OnlyOvertakenWritesAreLost ==
    \A p \in 1..MaxProcs :
        (procs[p].wrote /\ \A q \in 1..MaxProcs : q /= p => ~Overtaken(p, q))
        => ChangesKept(procs[p])

\* both invocations loaded before either saved, both saved, and the record
\* the first one added is not in the file
C17_Witness ==
    \E p, q \in 1..MaxProcs :
        /\ p /= q /\ Overtaken(p, q)
        /\ procs[p].base = 0 /\ procs[q].base = 0
        /\ procs[p].op = "discover" /\ ~ChangesKept(procs[p])

\* C18: a run writes the dataset file at most once, and only when its loop
\* has gone through every candidate or record; an invocation killed before
\* its write has left the file with the content it had loaded.
C18_SingleWriteAfterTheLoop ==
    [][/\ coverage' /= coverage
          => \E p \in 1..MaxProcs :
                /\ procs[p].pc = "loop"
                /\ procs[p].i > LoopLen(procs[p])
                /\ ~procs[p].wrote /\ procs'[p].wrote /\ procs'[p].pc /= "loop"
                /\ \A q \in 1..MaxProcs : q /= p => procs'[q] = procs[q]
       /\ \A p \in 1..MaxProcs :
            (/\ procs'[p].pc = "killed"
             /\ \A q \in 1..MaxProcs : ~procs'[q].wrote)
            => coverage' = procs'[p].data]_vars

\* an invocation killed in its loop, one candidate gone through and found
\* valid, one to go, and the file as it was loaded
C18_Witness ==
    \E p \in 1..MaxProcs :
        /\ procs[p].pc = "killed" /\ procs[p].op = "discover" /\ ~procs[p].dry_run
        /\ procs[p].i = 2 /\ Len(procs[p].candidates) = 2
        /\ procs[p].acc.new_articles /= <<>>
        /\ coverage = procs[p].data

(***************************************************************************)
(* The adapters on their own: answers of the feeds, some of them failures, *)
(* and answers the Google News search gives to one request after another.  *)
(***************************************************************************)
\* a request that failed: HTTP 429, or a body that does not parse
Failed(why) == [ok |-> FALSE, items |-> <<>>, why |-> why]

\* the requests of one query that are looked at: the first and two more
MaxAttempts == 3

\* what one feed can answer
FeedAnswers(items) == {Failed("down")} \cup {Up(q) : q \in SeqsOf(items, 1)}

\* what the search can answer to one request
SEARCH_ANSWERS ==
    {Failed("429"), Failed("garbled")} \cup {Up(q) : q \in SeqsOf(GOOGLE_ITEMS, 1)}

\* the URLs the dataset can hold already
EXISTING == {{}, {NORMALIZED[U_BEGINS], NORMALIZED[U_DAYTWO]}}

InitAdapters ==
    /\ coverage = [articles |-> <<>>, lastUpdated |-> 0]
    /\ registry = [updatedAt |-> 0, lastVerified |-> 0]
    /\ commits = 0
    /\ now = 0
    /\ world = [rss |-> <<Up(<<>>), Up(<<>>), Up(<<>>)>>, gnews |-> Up(<<>>)]
    /\ run = NoRun
    /\ procs = NoProcs
    /\ probe \in
        {[adapter |-> "rss", responses |-> <<a, b, c>>, existing_urls |-> e,
          requests |-> 0, candidates |-> <<>>, polled |-> FALSE] :
            a \in FeedAnswers(FEED_ITEMS[1]), b \in FeedAnswers(FEED_ITEMS[2]),
            c \in FeedAnswers(FEED_ITEMS[3]), e \in EXISTING}
        \cup
        {[adapter |-> "google", responses |-> attempts, existing_urls |-> e,
          requests |-> 0, candidates |-> <<>>, polled |-> FALSE] :
            attempts \in [1..MaxAttempts -> SEARCH_ANSWERS], e \in EXISTING}

\* rss_candidates = poll_rss_feeds(config, existing_urls): one request to
\* each feed
PollRss ==
    /\ probe.adapter = "rss" /\ ~probe.polled
    /\ probe' = [probe EXCEPT
            !.candidates = poll_rss_feeds(CONFIG, probe.existing_urls, probe.responses),
            !.requests = Len(CONFIG.rss_feeds),
            !.polled = TRUE]
    /\ UNCHANGED <<coverage, registry, commits, now, world, run, procs>>

\* google_candidates = poll_google_news(config, existing_urls): the one
\* urlopen of line 654, whose answer is the first the search gives
PollGoogle ==
    /\ probe.adapter = "google" /\ ~probe.polled
    /\ probe' = [probe EXCEPT
            !.candidates = poll_google_news(CONFIG, probe.existing_urls, probe.responses[1]),
            !.requests = 1,
            !.polled = TRUE]
    /\ UNCHANGED <<coverage, registry, commits, now, world, run, procs>>

NextAdapters == PollRss \/ PollGoogle

SpecAdapters == InitAdapters /\ [][NextAdapters]_vars

(***************************************************************************)
(* Properties of the adapters                                              *)
(***************************************************************************)
\* the first request of the query that is answered with items to read
FirstAnswered(attempts) ==
    CHOOSE k \in 1..MaxAttempts :
        attempts[k].ok /\ \A j \in 1..(k - 1) : ~attempts[j].ok

\* C19: a query of the search adapter that is answered with HTTP 429 or
\* with a body that does not parse is made again, up to 2 more times, and
\* is given up only after that: when one of its first three requests is
\* answered, the candidates are those of the first answer.
C19_FailedQueryIsRetriedTwice ==
    (probe.adapter = "google" /\ probe.polled)
    => /\ probe.requests <= MaxAttempts
       /\ (\E k \in 1..MaxAttempts : probe.responses[k].ok)
            => /\ probe.requests = FirstAnswered(probe.responses)
               /\ probe.candidates
                    = poll_google_news(CONFIG, probe.existing_urls,
                                       probe.responses[FirstAnswered(probe.responses)])

\* a feed of the configuration has an item that poll_rss_feeds takes
Takes(f, item, existing_urls) ==
    /\ CONFIG.rss_feeds[f].format = "rss"
    /\ RSS_READ[f][item].usable /\ RSS_READ[f][item].wanted
    /\ RSS_READ[f][item].norm \notin existing_urls
    /\ ~RSS_READ[f][item].barred

\* C20: the failure of one feed stays with that feed: every item of every
\* other feed, before it and after it in the configuration, that the
\* adapter takes is among the candidates returned, and the candidates are
\* those of a run in which the failed feeds had no items.
C20_FeedFailureIsIsolated ==
    (probe.adapter = "rss" /\ probe.polled)
    => /\ \A f \in 1..Len(CONFIG.rss_feeds) :
            probe.responses[f].ok
            => \A item \in Range(probe.responses[f].items) :
                  Takes(f, item, probe.existing_urls)
                  => \E c \in Range(probe.candidates) :
                        /\ NORMALIZED[c.url] = RSS_READ[f][item].norm
                        /\ c.title = RSS_READ[f][item].candidate.title
       /\ probe.candidates
            = poll_rss_feeds(CONFIG, probe.existing_urls,
                             [f \in 1..Len(CONFIG.rss_feeds) |->
                                IF probe.responses[f].ok THEN probe.responses[f]
                                ELSE Up(<<>>)])

\* the first feed failed, the one after it failed, and the item of the
\* third is the candidate returned
C20_Witness ==
    /\ probe.adapter = "rss" /\ probe.polled
    /\ ~probe.responses[1].ok /\ ~probe.responses[2].ok /\ probe.responses[3].ok
    /\ Len(probe.candidates) = 1
    /\ probe.candidates[1].url = U_WORK

(***************************************************************************)
(* Properties of the merge of the adapters' candidates                     *)
(***************************************************************************)
\* the candidates of a list whose normalized URL no candidate of another
\* list has
NotAmong(list, other) ==
    SelectSeq(list, LAMBDA c : \A k \in 1..Len(other) :
                                    NORMALIZED[c.url] /= NORMALIZED[other[k].url])

\* C21: the merged list of a discover run holds at most one candidate per
\* normalized URL, and it is a function of the two lists of the adapters
\* only: the candidates of the RSS adapter as they came, then those of the
\* Google News adapter whose normalized URL the RSS adapter did not bring,
\* so that of a URL both adapters bring the RSS candidate is the one kept.
C21_MergeKeepsFirstAdapter ==
    [][(run'.op = "discover" /\ now' /= now)
        => LET existing == NormUrls(coverage.articles)
               Holds(rss, google, merged) ==
                    /\ \A i, j \in 1..Len(merged) :
                            i /= j => NORMALIZED[merged[i].url] /= NORMALIZED[merged[j].url]
                    /\ merged = rss \o NotAmong(google, rss)
           IN  Holds(poll_rss_feeds(CONFIG, existing, world'.rss),
                     poll_google_news(CONFIG, existing, world'.gnews),
                     run'.candidates)]_vars

\* a run in which the NJ.com feed and the Google News search both brought
\* the page of the second day, and the one candidate for it is the feed's
C21_Witness ==
    /\ run.op = "discover"
    /\ \E k \in 1..Len(world.rss[1].items) : world.rss[1].items[k].link = U_DAYTWO
    /\ \E k \in 1..Len(world.gnews.items) : world.gnews.items[k].link = U_GNEWS
    /\ \E k \in 1..Len(run.candidates) :
            /\ run.candidates[k].url = U_DAYTWO
            /\ run.candidates[k].from = "rss"
    /\ \A k \in 1..Len(run.candidates) : run.candidates[k].from /= "google_news"

(***************************************************************************)
(* Properties of the URLs of the records                                   *)
(***************************************************************************)
\* the host of the URL is a domain of the excluded list or under one
HostExcluded(url) ==
    LET OnList(host) ==
            \E d \in EXCLUDED_DOMAINS :
                host = d \/ (Len(host) > Len(d) /\ Suffix(host, Len(d) + 1) = "." \o d)
    IN  OnList(Lower(urlparse(url).netloc))

\* scheme://host/ with no further path
BareHomepage(url) ==
    LET Bare(parsed) ==
            /\ parsed.scheme \in {"http", "https"} /\ parsed.netloc /= ""
            /\ parsed.path \in {"", "/"}
            /\ url \in {parsed.scheme \o "://" \o parsed.netloc,
                        parsed.scheme \o "://" \o parsed.netloc \o "/"}
    IN  Bare(urlparse(url))

\* C22: no record of the dataset has a URL on an excluded non-news domain,
\* and none has the URL of a bare homepage.
C22_NoExcludedUrlPersisted ==
    \A a \in Range(coverage.articles) : ~HostExcluded(a.url) /\ ~BareHomepage(a.url)

(***************************************************************************)
(* Properties of the verify pass                                           *)
(***************************************************************************)
\* the excerpt of each page as it is scraped again
RESCRAPED_EXCERPT ==
    [url \in URLS |-> IF SCRAPED[url].some THEN make_excerpt(SCRAPED[url].markdown)
                      ELSE ""]

\* the record is one a verify run looks at, and its page can be scraped
Verifiable(article) ==
    /\ article.url \in URLS
    /\ ~BLOCKED[article.url]
    /\ SCRAPED[article.url].some

\* C23: a verify run proposes a correction for a record whose stored
\* excerpt is shorter than 100 characters and shorter than the excerpt of
\* the page scraped again, and when it is not dry it overwrites the stored
\* excerpt with that one; the excerpt of a record that has 100 characters
\* or more stays as it is.
C23_ShortExcerptIsCorrected ==
    [][(run'.op = "verify" /\ now' /= now)
        => \A a \in Range(coverage.articles) :
              Verifiable(a)
              => /\ (/\ Len(a.excerpt) < 100
                     /\ Len(RESCRAPED_EXCERPT[a.url]) > Len(a.excerpt))
                    => /\ \E c \in Range(run'.corrections) : c.url = a.url
                       /\ ~run'.dry_run
                          => \E b \in Range(coverage'.articles) :
                                b.url = a.url /\ b.excerpt = RESCRAPED_EXCERPT[a.url]
                 /\ Len(a.excerpt) >= 100
                    => \E b \in Range(coverage'.articles) :
                            b.url = a.url /\ b.excerpt = a.excerpt]_vars

\* what of a record no correction touches
Frame(a) == <<a.title, a.url, a.source, a.category, a.lines, a.direction>>

\* the number of the records with the given frame and author
Framed(articles, frame, author) ==
    Cardinality({i \in 1..Len(articles) :
                    Frame(articles[i]) = frame /\ articles[i].author \in author})

\* every author a record can have
AUTHORS ==
    {NoneVal} \cup {a.author : a \in CURATED} \cup {SCRAPED[url].author : url \in URLS}

LINE_PHRASES ==
    << "Montclair-Boonton trains rerouted", "Morris & Essex riders wait",
       "Northeast Corridor delays", "North Jersey Coast Line changes",
       "Raritan Valley loses one-seat ride" >>

\* phrases of an excerpt: the two directions, an opinion piece, an explainer
TEXT_PHRASES ==
    << "The morning commute into Manhattan is slower.",
       "Riders heading home face a longer evening commute.",
       "Opinion: the agencies owe riders an answer.",
       "What to know before the cutover." >>

U_TAPINTO == "https://www.tapinto.net/towns/montclair/articles/portal-bridge"

CLASSIFY_URLS == {U_NJT, U_TAPINTO, U_BEGINS}

\* the phrases of the given places, one after the other behind a lead
RECURSIVE Compose(_, _, _, _)
Compose(lead, phrases, picks, i) ==
    IF i > Len(phrases) THEN lead
    ELSE Compose(IF i \in picks THEN lead \o " " \o phrases[i] ELSE lead,
                 phrases, picks, i + 1)

\* the inputs: every URL with every choice of the phrases of an excerpt under
\* a title that names no line or one, and every choice of the phrases of a
\* title over an excerpt with no phrase or one
CLASSIFY_INPUTS ==
    (CLASSIFY_URLS \X {{}, {1}} \X (SUBSET (1..Len(TEXT_PHRASES))))
    \cup ({U_BEGINS} \X (SUBSET (1..Len(LINE_PHRASES))) \X {{}, {1}})

InitClassify ==
    /\ coverage = [articles |-> <<>>, lastUpdated |-> 0]
    /\ registry = [updatedAt |-> 0, lastVerified |-> 0]
    /\ commits = 0
    /\ now = 0
    /\ world = [rss |-> <<Up(<<>>), Up(<<>>), Up(<<>>)>>, gnews |-> Up(<<>>)]
    /\ run = NoRun
    /\ procs = NoProcs
    /\ probe \in
        {[url |-> url,
          title |-> Compose("Portal Bridge cutover:", LINE_PHRASES, lines, 1),
          excerpt |-> Compose("Service changes begin this week.", TEXT_PHRASES, texts, 1),
          category |-> "", lines |-> <<>>, direction |-> "", classified |-> FALSE] :
            <<url, lines, texts>> \in CLASSIFY_INPUTS}

\* the three classifications of a record that run_discover builds
Classify ==
    /\ ~probe.classified
    /\ probe' = [probe EXCEPT
            !.category = classify_category(probe.url, probe.title, probe.excerpt),
            !.lines = classify_lines(probe.title, probe.excerpt),
            !.direction = classify_direction(probe.title, probe.excerpt),
            !.classified = TRUE]
    /\ UNCHANGED <<coverage, registry, commits, now, world, run, procs>>

NextClassify == Classify

SpecClassify == InitClassify /\ [][NextClassify]_vars

(***************************************************************************)
(* Properties of the classifiers                                           *)
(***************************************************************************)
\* the text the classifiers of lines and direction read
ProbeText == Lower(probe.title \o " " \o probe.excerpt)

\* the keyword sets of the lines that have a keyword in the text
LineHits(text) ==
    {k \in 1..Len(LINE_KEYWORDS) : \E kw \in LINE_KEYWORDS[k][2] : Contains(text, kw)}

\* C25: each of the five keyword sets of the lines is tested by itself.
\* When 1, 2 or 3 of them have a keyword in the text, the result is the
\* tags of those sets, each once; when none or 4 or 5 of them have one, the
\* result is the single tag 'all'.  The result is never empty and never
\* holds 'all' beside a tag of a line.
C25_LineTagsOrAll ==
    probe.classified
    => LET Tagged(hits) ==
                /\ Cardinality(hits) \in 1..3
                   => /\ Len(probe.lines) = Cardinality(hits)
                      /\ Range(probe.lines) = {LINE_KEYWORDS[k][1] : k \in hits}
                /\ Cardinality(hits) \notin 1..3 => probe.lines = <<"all">>
       IN  /\ Len(LINE_KEYWORDS) = 5
           /\ Tagged(LineHits(ProbeText))
           /\ probe.lines /= <<>>
           /\ "all" \in Range(probe.lines) => probe.lines = <<"all">>

\* a title that names three lines, classified with the three tags
C25_Witness ==
    /\ probe.classified
    /\ Cardinality(LineHits(ProbeText)) = 3
    /\ probe.lines = <<"montclair-boonton", "northeast-corridor", "raritan-valley">>

\* C26: the two keyword sets of the directions are tested: when both have a
\* keyword in the text the direction is 'both', when one of them has, it is
\* the direction of that set, and when neither has, it is 'both'; the
\* direction is always one of the three valid directions.
C26_DirectionOfTheSetsHit ==
    probe.classified
    => LET Of(to_nyc, to_nj) ==
                /\ (to_nyc /\ to_nj) => probe.direction = "both"
                /\ (to_nyc /\ ~to_nj) => probe.direction = "nj-to-nyc"
                /\ (~to_nyc /\ to_nj) => probe.direction = "nyc-to-nj"
                /\ (~to_nyc /\ ~to_nj) => probe.direction = "both"
       IN  /\ Of(\E kw \in NJ_TO_NYC_KEYWORDS : Contains(ProbeText, kw),
                 \E kw \in NYC_TO_NJ_KEYWORDS : Contains(ProbeText, kw))
           /\ probe.direction \in VALID_DIRECTIONS

\* an excerpt about the morning commute and about riders heading home,
\* classified as 'both'
C26_Witness ==
    /\ probe.classified
    /\ Contains(ProbeText, "morning commute") /\ Contains(ProbeText, "heading home")
    /\ probe.direction = "both"

\* C27: the rules of the category apply in a fixed order and the first that
\* matches decides: an official domain gives 'official', whatever the text
\* says; else an opinion keyword gives 'opinion', whatever else the text
\* says and whatever the domain; else an analysis keyword gives 'analysis',
\* on a community domain too; else a community domain gives 'community';
\* else the category is 'news'.
C27_FirstCategoryRuleWins ==
    probe.classified
    => LET Of(official, opinion, analysis, community) ==
                /\ official => probe.category = "official"
                /\ (~official /\ opinion) => probe.category = "opinion"
                /\ (~official /\ ~opinion /\ analysis) => probe.category = "analysis"
                /\ (~official /\ ~opinion /\ ~analysis /\ community)
                   => probe.category = "community"
                /\ (~official /\ ~opinion /\ ~analysis /\ ~community)
                   => probe.category = "news"
       IN  Of(\E d \in OFFICIAL_DOMAINS : Contains(Lower(probe.url), d),
              \E kw \in OPINION_KEYWORDS : Contains(ProbeText, kw),
              \E kw \in ANALYSIS_KEYWORDS : Contains(ProbeText, kw),
              \E d \in COMMUNITY_DOMAINS : Contains(Lower(probe.url), d))

\* an opinion piece that is also an explainer, on the official site, filed
\* as 'official'
C27_Witness ==
    /\ probe.classified
    /\ probe.url = U_NJT
    /\ Contains(ProbeText, "opinion") /\ Contains(ProbeText, "what to know")
    /\ probe.category = "official"

(***************************************************************************)
(* normalize_url on its own: URLs in two schemes, on two hosts, with paths *)
(* that end in a slash or not and hold capitals or path parameters, each   *)
(* beside a URL that differs from it in one respect only.                  *)
(***************************************************************************)
NORMALIZE_PATHS ==
    {"", "/", "/news/Cutover-Begins.html", "/2026/02/16/Portal-Bridge/",
     "/news/story;v=2", "/news/story;v=2/"}

NORMALIZE_URLS ==
    {scheme \o "://" \o host \o path :
        scheme \in {"https", "HTTP"}, host \in {"www.nj.com", "Gothamist.com"},
        path \in NORMALIZE_PATHS}

\* a URL that differs from url, which has no query string, in the given
\* respect only
Variant(url, respect) ==
    CASE respect = "query" -> url \o "?utm_source=rss&ref=home"
      [] respect = "slash" -> url \o "/"
      [] respect = "case" -> Lower(url)

InitNormalize ==
    /\ coverage = [articles |-> <<>>, lastUpdated |-> 0]
    /\ registry = [updatedAt |-> 0, lastVerified |-> 0]
    /\ commits = 0
    /\ now = 0
    /\ world = [rss |-> <<Up(<<>>), Up(<<>>), Up(<<>>)>>, gnews |-> Up(<<>>)]
    /\ run = NoRun
    /\ procs = NoProcs
    /\ probe \in {[url |-> url, respect |-> respect, other |-> Variant(url, respect),
                   norm |-> "", again |-> "", other_norm |-> "", normalized |-> FALSE] :
                    url \in NORMALIZE_URLS, respect \in {"query", "slash", "case"}}

\* norm = normalize_url(url) for a URL, for its key, and for the other URL
Normalize ==
    /\ ~probe.normalized
    /\ probe' = [probe EXCEPT
            !.norm = normalize_url(probe.url),
            !.again = normalize_url(normalize_url(probe.url)),
            !.other_norm = normalize_url(probe.other),
            !.normalized = TRUE]
    /\ UNCHANGED <<coverage, registry, commits, now, world, run, procs>>

NextNormalize == Normalize

SpecNormalize == InitNormalize /\ [][NextNormalize]_vars

\* C28: normalize_url is idempotent, the key of a key is that key, and two
\* URLs that differ only in the query string, in trailing slashes or in the
\* case of letters have the same key.
C28_NormalizeIdempotentAndInsensitive ==
    probe.normalized
    => /\ probe.again = probe.norm
       /\ probe.other_norm = probe.norm

(***************************************************************************)
(* Properties of the gates of a discover run                               *)
(***************************************************************************)
\* what the web answers for the URL an adapter supplied: the HEAD request
\* gives 200, and the page at the final URL can be scraped, is not the page
\* of a 404 and names the Portal Bridge cutover
PASSES_GATES ==
    [url \in URLS |->
        LET Page404(page) ==
                \/ page.status_code = 404
                \/ \E sig \in NOT_FOUND_SIGNS :
                        Contains(Lower(Prefix(page.markdown, NOT_FOUND_HEADER)), sig)
            Relevant(page) ==
                \E kw \in RELEVANCE_KEYWORDS : Contains(Lower(page.markdown), kw)
            Passes(head) ==
                /\ head.kind = "ok" /\ head.status = 200
                /\ ScrapeOf(head.final).ok
                /\ ~Page404(ScrapeOf(head.final))
                /\ Relevant(ScrapeOf(head.final))
        IN  Passes(HeadOf(url))]

\* C29: a discover run has a record for a candidate only if the HEAD request
\* of the candidate's URL gave 200, the page was scraped and is not the page
\* of a 404, and the text scraped holds a relevance keyword; and the URL of
\* the record is the final URL the HEAD request ended at.
C29_OnlyGatedCandidatesPersisted ==
    run.op = "discover"
    => \A a \in Range(run.new_articles) :
          \E k \in 1..Len(run.log) :
              /\ run.log[k].outcome = "added" /\ run.log[k].id = a.id
              /\ PASSES_GATES[run.log[k].url]
              /\ a.url = HeadOf(run.log[k].url).final

\* a run that stored a record under the URL its link was redirected to and
\* turned down a page that answers 200 and says 'Page not found'
C29_Witness ==
    /\ run.op = "discover" /\ ~run.dry_run
    /\ \E k \in 1..Len(run.log) :
            /\ run.log[k].url = U_SHORT /\ run.log[k].outcome = "added"
            /\ \E a \in Range(coverage.articles) :
                    a.id = run.log[k].id /\ a.url = U_BEGINS
    /\ \E k \in 1..Len(run.log) :
            run.log[k].url = U_REMOVED /\ run.log[k].outcome = "scrape"

\* the candidate of the run that a line of its log is about
CandidateAt(url) ==
    CHOOSE c \in Range(run.candidates) : c.url = url

\* C30: the date of a record that a discover run builds is the date of the
\* adapter when it parsed one, else the date scraped from the page when one
\* was found, else the day of the run.  A candidate without a date from the
\* feed whose page gives none is not turned down for that: when it passes
\* the gates and the validator finds nothing else, it is stored with the
\* day of the run.
C30_DateFromAdapterThenPageThenToday ==
    run.op = "discover"
    => \A k \in 1..Len(run.log) :
          LET Dated(candidate, scraped) ==
                /\ run.log[k].outcome = "added"
                   => \E a \in Range(run.new_articles) :
                        /\ a.id = run.log[k].id
                        /\ a.date = IF Truthy(candidate.date) THEN candidate.date
                                    ELSE IF Truthy(scraped.date) THEN scraped.date
                                    ELSE Today(now)
                /\ (/\ ~Truthy(candidate.date) /\ ~Truthy(scraped.date)
                    /\ PASSES_GATES[run.log[k].url])
                   => \/ run.log[k].outcome \in {"added", "duplicate"}
                      \/ /\ run.log[k].outcome = "invalid"
                         /\ ~Names(EXAMINED[candidate][now].errors, "date")
          IN  Dated(CandidateAt(run.log[k].url),
                    SCRAPED[IF HeadOf(run.log[k].url).kind = "ok"
                            THEN HeadOf(run.log[k].url).final ELSE run.log[k].url])

\* a run that stored a record with the date of the feed, which is not the
\* date of its page, and a record of a candidate with an unreadable feed
\* date and an undated page, dated with the day of the run
C30_Witness ==
    /\ run.op = "discover" /\ ~run.dry_run
    /\ \E a \in Range(coverage.articles) :
            /\ a.url = U_BEGINS /\ a.date = "2026-02-16"
            /\ SCRAPED[U_BEGINS].date = "2026-02-17"
    /\ \E k \in 1..Len(run.log) :
            /\ run.log[k].url = U_MOVED /\ run.log[k].outcome = "added"
            /\ CandidateAt(U_MOVED).date = NoneVal
            /\ SCRAPED[U_HOME].date = NoneVal
            /\ \E a \in Range(coverage.articles) :
                    a.id = run.log[k].id /\ a.date = Today(now)

====
